---- MODULE Spec2Model ----
(***************************************************************************)
(* Metadata codec of the GeoImgr tool (lib/comprehensive-metadata-utils.ts *)
(* as bundled in src/pages/api/geocode.ts): format capability lookup, the  *)
(* PNG / WebP / EXIF readers and writers, CRC32 and the DMS conversion.    *)
(*                                                                         *)
(* Conventions.  A Buffer is a sequence of bytes 0..255, addressed with    *)
(* the code's 0-based offsets through At/Subarray.  A JavaScript string is *)
(* a sequence of code points.  A JavaScript number is an exact rational    *)
(* [t |-> "num", n, d] (float64 rounding, below 1e-9 degree on the values  *)
(* used here, is not modelled); NaN, strings, arrays and undefined are     *)
(* other tagged records, so that the dynamic typing of the code is kept.   *)
(* An operation that can throw returns a record with a `threw` field.      *)
(***************************************************************************)
EXTENDS Integers, Sequences, FiniteSets, TLC

----------------------------------------------------------------------------
(* Sequences and Buffers *)

Min(a, b) == IF a < b THEN a ELSE b
Max(a, b) == IF a > b THEN a ELSE b

\* Loops over a buffer or a list are folded by halves, and an accumulated value
\* is compared before it is passed on, so that the evaluation stays shallow.

\* Concatenation of a sequence of sequences (Buffer.concat, Array.join("")).
RECURSIVE ConcatRange(_, _, _)
ConcatRange(ss, lo, hi) ==
    IF lo > hi THEN <<>>
    ELSE IF lo = hi THEN ss[lo]
    ELSE ConcatRange(ss, lo, (lo + hi) \div 2) \o ConcatRange(ss, ((lo + hi) \div 2) + 1, hi)
Concat(ss) == ConcatRange(ss, 1, Len(ss))

\* The least element of a non-empty set of integers.
Least(S) == CHOOSE i \in S : \A j \in S : i <= j

\* buf[i] with the code's 0-based index.
At(buf, i) == buf[i + 1]

\* Buffer.subarray(start, end): a negative index counts from the end, both
\* ends are clamped to the buffer, an empty range gives an empty view.
ClampIndex(i, len) == IF i < 0 THEN Max(len + i, 0) ELSE Min(i, len)
Subarray(buf, start, end) ==
    SubSeq(buf, ClampIndex(start, Len(buf)) + 1, ClampIndex(end, Len(buf)))

\* Buffer.subarray(start) / String.slice(start).
SubarrayFrom(buf, start) == Subarray(buf, start, Len(buf))

\* Buffer.indexOf(value, byteOffset): -1 when absent.
IndexOfFrom(buf, value, from) ==
    LET hits == {i \in from..(Len(buf) - 1) : At(buf, i) = value}
    IN  IF hits = {} THEN -1 ELSE Least(hits)
IndexOf(buf, value) == IndexOfFrom(buf, value, 0)

\* writeUInt32BE / writeUInt32LE / a 16-bit big-endian field, for values
\* below 2^31 (every length and size of the model is).
U32BE(v) == << (v \div 16777216) % 256, (v \div 65536) % 256, (v \div 256) % 256, v % 256 >>
U32LE(v) == << v % 256, (v \div 256) % 256, (v \div 65536) % 256, (v \div 16777216) % 256 >>
U16BE(v) == << (v \div 256) % 256, v % 256 >>

\* Buffer.readUInt32BE / readUInt32LE: a RangeError when the four bytes do not
\* lie inside the buffer (InRange is that test).
InRange(buf, off, n) == off >= 0 /\ off + n <= Len(buf)
ReadUInt32BE(buf, off) ==
    At(buf, off) * 16777216 + At(buf, off + 1) * 65536 + At(buf, off + 2) * 256 + At(buf, off + 3)
ReadUInt32LE(buf, off) ==
    At(buf, off) + At(buf, off + 1) * 256 + At(buf, off + 2) * 65536 + At(buf, off + 3) * 16777216
ReadUInt16BE(buf, off) == At(buf, off) * 256 + At(buf, off + 1)

----------------------------------------------------------------------------
(* CRC32 (calculateCRC32) *)

\* A 32-bit unsigned value is kept as its four bytes, most significant first
\* (what writeUInt32BE stores): TLC's integers stop at 2^31 - 1.

\* Bitwise exclusive or of two non-negative integers below 2^n.
RECURSIVE XorBits(_, _, _)
XorBits(a, b, n) ==
    IF n = 0 THEN 0
    ELSE (((a % 2) + (b % 2)) % 2) + 2 * XorBits(a \div 2, b \div 2, n - 1)

Xor4 == [a \in 0..15 |-> [b \in 0..15 |-> XorBits(a, b, 4)]]
Xor8(a, b) == Xor4[a \div 16][b \div 16] * 16 + Xor4[a % 16][b % 16]
Xor32(v, w) == << Xor8(v[1], w[1]), Xor8(v[2], w[2]), Xor8(v[3], w[3]), Xor8(v[4], w[4]) >>

\* c >>> 1 and c >>> 8.
ShiftRight1(w) ==
    << w[1] \div 2,
       (w[1] % 2) * 128 + (w[2] \div 2),
       (w[2] % 2) * 128 + (w[3] \div 2),
       (w[3] % 2) * 128 + (w[4] \div 2) >>
ShiftRight8(w) == << 0, w[1], w[2], w[3] >>

CrcPolynomial == << 237, 184, 131, 32 >>     \* 0xedb88320
CrcInitial == << 255, 255, 255, 255 >>       \* 0xffffffff

\* The inner loop of the table construction: eight conditional shifts.
RECURSIVE CrcTableEntry(_, _)
CrcTableEntry(c, j) ==
    IF j = 0 THEN c
    ELSE CrcTableEntry(IF c[4] % 2 = 1 THEN Xor32(CrcPolynomial, ShiftRight1(c))
                       ELSE ShiftRight1(c), j - 1)

crcTable == [i \in 0..255 |-> CrcTableEntry(<< 0, 0, 0, i >>, 8)]

\* One turn of the byte loop: crcTable[(crc ^ data[i]) & 0xff] ^ (crc >>> 8).
CrcStep(crc, byte) == Xor32(crcTable[Xor8(crc[4], byte)], ShiftRight8(crc))

\* The byte loop over data[lo..hi] (1-based), started from crc.
RECURSIVE CrcLoop(_, _, _, _)
CrcLoop(data, lo, hi, crc) ==
    IF lo > hi THEN crc
    ELSE IF lo = hi THEN CrcStep(crc, data[lo])
    ELSE LET mid == (lo + hi) \div 2
             left == CrcLoop(data, lo, mid, crc)
         IN  IF left = <<>> THEN <<>> ELSE CrcLoop(data, mid + 1, hi, left)

\* The byte loop alone, without the last exclusive or.
CrcWithoutFinalXor(data) == CrcLoop(data, 1, Len(data), CrcInitial)
\* (crc ^ 0xffffffff) >>> 0, as the four bytes writeUInt32BE stores.
calculateCRC32(data) == Xor32(CrcLoop(data, 1, Len(data), CrcInitial), CrcInitial)

----------------------------------------------------------------------------
(* JavaScript strings: sequences of code points *)

IsUpper(c) == (c >= 65 /\ c <= 90) \/ (c >= 192 /\ c <= 222 /\ c # 215)
\* String.toLowerCase, on the Basic Latin and Latin-1 letters.
ToLowerCase(s) == [i \in 1..Len(s) |-> IF IsUpper(s[i]) THEN s[i] + 32 ELSE s[i]]

\* String.includes(sub).
Includes(s, sub) ==
    \E i \in 0..(Len(s) - Len(sub)) : SubSeq(s, i + 1, i + Len(sub)) = sub

\* String.substring / slice with non-negative arguments.
Substring(s, start, end) == Subarray(s, start, end)

\* String.trim: white space and line terminators at both ends.
IsSpace(c) == c \in {9, 10, 11, 12, 13, 32, 160}
TrimStart(s) ==
    LET kept == {i \in 1..Len(s) : ~IsSpace(s[i])}
    IN  IF kept = {} THEN <<>> ELSE SubSeq(s, Least(kept), Len(s))
TrimEnd(s) ==
    LET kept == {i \in 1..Len(s) : ~IsSpace(s[i])}
    IN  IF kept = {} THEN <<>> ELSE SubSeq(s, 1, -Least({-i : i \in kept}))
Trim(s) == TrimEnd(TrimStart(s))

\* String.split(sep) for a one-character separator: never an empty array.
RECURSIVE Split(_, _)
Split(s, sep) ==
    LET i == IndexOf(s, sep)
    IN  IF i < 0 THEN << s >>
        ELSE << Subarray(s, 0, i) >> \o Split(SubarrayFrom(s, i + 1), sep)

\* /[^\x00-\x7F]/.test(s)
HasNonAscii(s) == \E i \in 1..Len(s) : s[i] > 127

\* Buffer.from(s, "latin1"): the low byte of every code unit.
Latin1Encode(s) == [i \in 1..Len(s) |-> s[i] % 256]
\* buf.toString("latin1"): every byte is its own code point.
Latin1Decode(buf) == buf

\* Buffer.from(s, "utf8"), for code points of the Basic Multilingual Plane.
Utf8EncodeChar(c) ==
    IF c < 128 THEN << c >>
    ELSE IF c < 2048 THEN << 192 + (c \div 64), 128 + (c % 64) >>
    ELSE << 224 + (c \div 4096), 128 + ((c \div 64) % 64), 128 + (c % 64) >>
Utf8Encode(s) ==
    IF \A i \in 1..Len(s) : s[i] < 128 THEN s
    ELSE Concat([i \in 1..Len(s) |-> Utf8EncodeChar(s[i])])

\* buf.toString() / toString("utf8"): one-, two- and three-byte sequences are
\* decoded, any byte that starts no well-formed sequence becomes U+FFFD.
ReplacementChar == 65533
IsCont(buf, i) == i < Len(buf) /\ At(buf, i) >= 128 /\ At(buf, i) < 192
\* The first position from i on that holds no ASCII byte (the length if none).
AsciiRunEnd(buf, i) ==
    LET high == {k \in i..(Len(buf) - 1) : At(buf, k) >= 128}
    IN  IF high = {} THEN Max(i, Len(buf)) ELSE Least(high)
RECURSIVE Utf8DecodeFrom(_, _)
Utf8DecodeFrom(buf, i) ==
    IF i >= Len(buf) THEN <<>>
    ELSE LET b == At(buf, i)
         IN  IF b < 128
             THEN Subarray(buf, i, AsciiRunEnd(buf, i)) \o Utf8DecodeFrom(buf, AsciiRunEnd(buf, i))
             ELSE IF b >= 194 /\ b < 224 /\ IsCont(buf, i + 1)
             THEN << (b - 192) * 64 + (At(buf, i + 1) - 128) >> \o Utf8DecodeFrom(buf, i + 2)
             ELSE IF b >= 225 /\ b < 240 /\ b # 237 /\ IsCont(buf, i + 1) /\ IsCont(buf, i + 2)
             THEN << (b - 224) * 4096 + (At(buf, i + 1) - 128) * 64 + (At(buf, i + 2) - 128) >>
                  \o Utf8DecodeFrom(buf, i + 3)
             ELSE << ReplacementChar >> \o Utf8DecodeFrom(buf, i + 1)
Utf8Decode(buf) == Utf8DecodeFrom(buf, 0)

----------------------------------------------------------------------------
(* JavaScript values *)

Undefined == [t |-> "undef"]
NaN == [t |-> "nan"]
Str(s) == [t |-> "str", s |-> s]
Arr(a) == [t |-> "arr", a |-> a]

Abs(n) == IF n < 0 THEN -n ELSE n
RECURSIVE GCD(_, _)
GCD(a, b) == IF b = 0 THEN a ELSE GCD(b, a % b)

\* The number n / d (d > 0), in lowest terms.
Num(n, d) ==
    LET g == GCD(Abs(n), d)
    IN  [t |-> "num", n |-> n \div g, d |-> d \div g]
IntNum(n) == Num(n, 1)

IsNum(v) == v.t = "num"
NumNeg(x) == Num(-x.n, x.d)
NumAbs(x) == Num(Abs(x.n), x.d)
NumAdd(x, y) ==
    LET l == (x.d \div GCD(x.d, y.d)) * y.d
    IN  Num(x.n * (l \div x.d) + y.n * (l \div y.d), l)
NumSub(x, y) == NumAdd(x, NumNeg(y))
\* x * k and x / k for an integer k > 0.
NumMulInt(x, k) == LET g == GCD(k, x.d) IN Num(x.n * (k \div g), x.d \div g)
NumDivInt(x, k) == LET g == GCD(Abs(x.n), k) IN Num(x.n \div g, x.d * (k \div g))
NumLeq(x, y) ==
    LET l == (x.d \div GCD(x.d, y.d)) * y.d
    IN  x.n * (l \div x.d) <= y.n * (l \div y.d)
NumLt(x, y) == ~NumLeq(y, x)
\* Math.floor and Math.round (round half up).
NumFloor(x) == IntNum(x.n \div x.d)
NumRound(x) == NumFloor(NumAdd(x, Num(1, 2)))

\* Truthiness of a value (the operand of && and if).
Truthy(v) ==
    CASE v.t = "undef" -> FALSE
      [] v.t = "null" -> FALSE
      [] v.t = "nan" -> FALSE
      [] v.t = "num" -> v.n # 0
      [] v.t = "str" -> v.s # <<>>
      [] v.t = "bool" -> v.b
      [] OTHER -> TRUE

\* The decimal digits of a natural number.
RECURSIVE Digits(_)
Digits(n) == IF n < 10 THEN << 48 + n >> ELSE Digits(n \div 10) \o << 48 + (n % 10) >>
\* The six fraction digits of f millionths, without the trailing zeros.
RECURSIVE FractionDigits(_, _)
FractionDigits(f, width) ==
    IF f = 0 THEN <<>>
    ELSE IF f % 10 = 0 THEN FractionDigits(f \div 10, width - 1)
    ELSE LET ds == Digits(f)
         IN  [i \in 1..(width - Len(ds)) |-> 48] \o ds

\* Number::toString (template literals, JSON.stringify) of a number with at
\* most six decimals and magnitude in [1e-6, 1e21) or zero: no exponent form.
NumberToString(x) ==
    LET whole == Abs(x.n) \div x.d
        frac == FractionDigits((Abs(x.n) % x.d) * (1000000 \div x.d), 6)
    IN  (IF x.n < 0 THEN << 45 >> ELSE <<>>)
        \o Digits(whole)
        \o (IF frac = <<>> THEN <<>> ELSE << 46 >> \o frac)

IsDigit(c) == c >= 48 /\ c <= 57
\* The end of the run of digits starting at 0-based position i.
DigitsEnd(s, i) ==
    LET others == {k \in i..(Len(s) - 1) : ~IsDigit(At(s, k))}
    IN  IF others = {} THEN Max(i, Len(s)) ELSE Least(others)
\* The value of a run of digits.
RECURSIVE DigitsValue(_)
DigitsValue(ds) ==
    IF ds = <<>> THEN 0 ELSE DigitsValue(SubSeq(ds, 1, Len(ds) - 1)) * 10 + (ds[Len(ds)] - 48)
RECURSIVE Pow10(_)
Pow10(k) == IF k = 0 THEN 1 ELSE 10 * Pow10(k - 1)

CharAt(s, i) == IF i >= 0 /\ i < Len(s) THEN At(s, i) ELSE -1

\* A decimal literal laid out in s: integer digits at [i0, i1), then, when
\* i2 > i1, a "." at i1 and fraction digits at [i1 + 1, i2).
FractionEnd(s, i1) == IF CharAt(s, i1) = 46 THEN DigitsEnd(s, i1 + 1) ELSE i1
DecimalMagnitude(s, i0, i1, i2) ==
    NumAdd(IntNum(DigitsValue(Subarray(s, i0, i1))),
           Num(DigitsValue(Subarray(s, i1 + 1, i2)), Pow10(Max(i2 - i1 - 1, 0))))
SignedMagnitude(negative, mag) == IF negative THEN NumNeg(mag) ELSE mag

\* The longest prefix of s (from 0-based position i) that is a decimal
\* literal [+-]digits[.digits], as [end, value]; end = i when there is none.
\* Exponents and "Infinity" are outside the model's texts.
DecimalLiteral(s, i, i0, i1, i2) ==
    IF i1 > i0 \/ i2 > i1 + 1
    THEN [end |-> i2,
          value |-> SignedMagnitude(CharAt(s, i) = 45, DecimalMagnitude(s, i0, i1, i2))]
    ELSE [end |-> i, value |-> NaN]
DecimalDigits(s, i, i0, i1) == DecimalLiteral(s, i, i0, i1, FractionEnd(s, i1))
DecimalFrom(s, i, i0) == DecimalDigits(s, i, i0, DigitsEnd(s, i0))
DecimalPrefix(s, i) == DecimalFrom(s, i, IF CharAt(s, i) \in {43, 45} THEN i + 1 ELSE i)

\* String(v), as used by parseFloat, the + operator and Array.join.
RECURSIVE JsToString(_)
RECURSIVE JsJoin(_)
JsJoin(a) ==
    IF a = <<>> THEN <<>>
    ELSE IF Len(a) = 1 THEN JsToString(a[1])
    ELSE JsToString(a[1]) \o << 44 >> \o JsJoin(Tail(a))
JsToString(v) ==
    CASE v.t = "str" -> v.s
      [] v.t = "num" -> NumberToString(v)
      [] v.t = "nan" -> << 78, 97, 78 >>
      [] v.t = "undef" -> << 117, 110, 100, 101, 102, 105, 110, 101, 100 >>
      [] v.t = "null" -> << 110, 117, 108, 108 >>
      [] v.t = "arr" -> JsJoin(v.a)
      [] OTHER -> << 91, 111, 98, 106, 101, 99, 116, 32, 79, 98, 106, 101, 99, 116, 93 >>

\* parseFloat(v): the leading decimal literal of String(v), else NaN.
parseFloat(v) == DecimalPrefix(TrimStart(JsToString(v)), 0).value

\* Number(v): the whole trimmed string must be a decimal literal.
StringToNumber(s, p) ==
    IF s = <<>> THEN IntNum(0)
    ELSE IF p.end = Len(s) THEN p.value ELSE NaN
TrimmedToNumber(s) == StringToNumber(s, DecimalPrefix(s, 0))
JsToNumber(v) ==
    CASE v.t = "num" -> v
      [] v.t = "nan" -> NaN
      [] v.t = "undef" -> NaN
      [] v.t = "null" -> IntNum(0)
      [] OTHER -> TrimmedToNumber(Trim(JsToString(v)))

\* The arithmetic operators on operands already converted with Number().
AddNumbers(x, y) == IF IsNum(x) /\ IsNum(y) THEN NumAdd(x, y) ELSE NaN
DivideNumber(x, k) == IF IsNum(x) THEN NumDivInt(x, k) ELSE NaN
NegateNumber(x) == IF IsNum(x) THEN NumNeg(x) ELSE NaN

\* a + b: concatenation as soon as one operand is a string or an array.
JsAdd(a, b) ==
    IF a.t \in {"str", "arr"} \/ b.t \in {"str", "arr"}
    THEN Str(JsToString(a) \o JsToString(b))
    ELSE AddNumbers(JsToNumber(a), JsToNumber(b))
\* a / k for a positive integer literal k.
JsDivInt(a, k) == DivideNumber(JsToNumber(a), k)
\* -a
JsNegate(a) == NegateNumber(JsToNumber(a))

Bool(b) == [t |-> "bool", b |-> b]
Null == [t |-> "null"]
\* An object literal or JSON object: its members in order, as <<key, value>>.
Obj(members) == [t |-> "obj", members |-> members]

\* !v
Falsy(v) == ~Truthy(v)

\* v[key] for an ordinary (non-index) key: the last member of that name of an
\* object, undefined on any other value; reading it off null or undefined is a
\* TypeError (threw).
RECURSIVE Lookup(_, _)
Lookup(members, key) ==
    IF members = <<>> THEN Undefined
    ELSE IF members[Len(members)][1] = key THEN members[Len(members)][2]
    ELSE Lookup(SubSeq(members, 1, Len(members) - 1), key)
GetProp(v, key) ==
    IF v.t \in {"null", "undef"} THEN [threw |-> TRUE, value |-> Undefined]
    ELSE [threw |-> FALSE,
          value |-> IF v.t = "obj" THEN Lookup(v.members, key) ELSE Undefined]

----------------------------------------------------------------------------
(* JSON.stringify and JSON.parse *)

K_lat == << 108, 97, 116 >>
K_lon == << 108, 111, 110 >>
K_timestamp == << 116, 105, 109, 101, 115, 116, 97, 109, 112 >>

\* JSON.stringify of a number, a string without characters to escape, or an
\* object of such members; a member whose value is undefined is left out.
RECURSIVE JsonStringify(_)
RECURSIVE JsonMembers(_, _)
JsonMembers(members, first) ==
    IF members = <<>> THEN <<>>
    ELSE IF members[1][2].t = "undef" THEN JsonMembers(Tail(members), first)
    ELSE (IF first THEN <<>> ELSE << 44 >>)
         \o << 34 >> \o members[1][1] \o << 34, 58 >> \o JsonStringify(members[1][2])
         \o JsonMembers(Tail(members), FALSE)
JsonStringify(v) ==
    CASE v.t = "num" -> NumberToString(v)
      [] v.t = "nan" -> << 110, 117, 108, 108 >>
      [] v.t = "null" -> << 110, 117, 108, 108 >>
      [] v.t = "str" -> << 34 >> \o v.s \o << 34 >>
      [] v.t = "obj" -> << 123 >> \o JsonMembers(v.members, TRUE) \o << 125 >>
      [] OTHER -> << 110, 117, 108, 108 >>

IsJsonWs(c) == c \in {9, 10, 13, 32}
SkipWs(s, i) ==
    LET others == {k \in i..(Len(s) - 1) : ~IsJsonWs(At(s, k))}
    IN  IF others = {} THEN Max(i, Len(s)) ELSE Least(others)

ParseFail == [ok |-> FALSE, end |-> 0, value |-> Undefined]

\* number: -? (0 | [1-9][0-9]*) (. [0-9]+)?   (no exponent in the model's texts)
JsonNumberAt(s, i, i0, i1, i2) ==
    IF i1 = i0 \/ i2 = i1 + 1 THEN ParseFail
    ELSE [ok |-> TRUE, end |-> i2,
          value |-> SignedMagnitude(i0 > i, DecimalMagnitude(s, i0, i1, i2))]
JsonNumberDigits(s, i, i0, i1) == JsonNumberAt(s, i, i0, i1, FractionEnd(s, i1))
JsonNumberFrom(s, i, i0) ==
    JsonNumberDigits(s, i, i0, IF CharAt(s, i0) = 48 THEN i0 + 1 ELSE DigitsEnd(s, i0))
JsonNumber(s, i) == JsonNumberFrom(s, i, IF CharAt(s, i) = 45 THEN i + 1 ELSE i)

\* string: " chars ", with no escape sequence and no control character.
JsonStringBody(body, close) ==
    IF \E k \in 1..Len(body) : body[k] = 92 \/ body[k] < 32 THEN ParseFail
    ELSE [ok |-> TRUE, end |-> close + 1, value |-> Str(body)]
JsonStringTo(s, i, close) ==
    IF CharAt(s, i) # 34 \/ close < 0 THEN ParseFail
    ELSE JsonStringBody(Subarray(s, i + 1, close), close)
JsonString(s, i) == JsonStringTo(s, i, IndexOfFrom(s, 34, i + 1))

JsonLiteral(s, i, word, v) ==
    IF Subarray(s, i, i + Len(word)) = word
    THEN [ok |-> TRUE, end |-> i + Len(word), value |-> v]
    ELSE ParseFail

RECURSIVE JsonValue(_, _)
RECURSIVE JsonMembersAt(_, _, _)
RECURSIVE JsonElementsAt(_, _, _)
\* After "{" or ",": "key" : value, then "," or "}".
JsonMemberEnd(s, acc, key, v, next) ==
    IF ~v.ok THEN ParseFail
    ELSE IF CharAt(s, next) = 44
    THEN JsonMembersAt(s, next + 1, Append(acc, << key, v.value >>))
    ELSE IF CharAt(s, next) = 125
    THEN [ok |-> TRUE, end |-> next + 1, value |-> Obj(Append(acc, << key, v.value >>))]
    ELSE ParseFail
JsonMemberValue(s, acc, key, v) == JsonMemberEnd(s, acc, key, v, SkipWs(s, v.end))
JsonMemberColon(s, acc, k, colon) ==
    IF ~k.ok \/ CharAt(s, colon) # 58 THEN ParseFail
    ELSE JsonMemberValue(s, acc, k.value.s, JsonValue(s, colon + 1))
JsonMemberKey(s, acc, k) == JsonMemberColon(s, acc, k, SkipWs(s, k.end))
JsonMembersAt(s, i, acc) == JsonMemberKey(s, acc, JsonString(s, SkipWs(s, i)))
\* After "[" or ",": value, then "," or "]".
JsonElementEnd(s, acc, v, next) ==
    IF ~v.ok THEN ParseFail
    ELSE IF CharAt(s, next) = 44 THEN JsonElementsAt(s, next + 1, Append(acc, v.value))
    ELSE IF CharAt(s, next) = 93
    THEN [ok |-> TRUE, end |-> next + 1, value |-> Arr(Append(acc, v.value))]
    ELSE ParseFail
JsonElementValue(s, acc, v) == JsonElementEnd(s, acc, v, SkipWs(s, v.end))
JsonElementsAt(s, i, acc) == JsonElementValue(s, acc, JsonValue(s, i))
\* The value that starts at position j with the character c.
JsonValueAt(s, j, c) ==
    CASE c = 123 ->
           IF CharAt(s, SkipWs(s, j + 1)) = 125
           THEN [ok |-> TRUE, end |-> SkipWs(s, j + 1) + 1, value |-> Obj(<<>>)]
           ELSE JsonMembersAt(s, j + 1, <<>>)
      [] c = 91 ->
           IF CharAt(s, SkipWs(s, j + 1)) = 93
           THEN [ok |-> TRUE, end |-> SkipWs(s, j + 1) + 1, value |-> Arr(<<>>)]
           ELSE JsonElementsAt(s, j + 1, <<>>)
      [] c = 34 -> JsonString(s, j)
      [] c = 45 \/ IsDigit(c) -> JsonNumber(s, j)
      [] c = 110 -> JsonLiteral(s, j, << 110, 117, 108, 108 >>, Null)
      [] c = 116 -> JsonLiteral(s, j, << 116, 114, 117, 101 >>, Bool(TRUE))
      [] c = 102 -> JsonLiteral(s, j, << 102, 97, 108, 115, 101 >>, Bool(FALSE))
      [] OTHER -> ParseFail
JsonValueFrom(s, j) == JsonValueAt(s, j, CharAt(s, j))
JsonValue(s, i) == JsonValueFrom(s, SkipWs(s, i))

\* JSON.parse(text): a SyntaxError (threw) unless the whole text is one value.
JsonParsed(text, r) ==
    IF r.ok /\ SkipWs(text, r.end) = Len(text)
    THEN [threw |-> FALSE, value |-> r.value]
    ELSE [threw |-> TRUE, value |-> Undefined]
JsonParse(text) == JsonParsed(text, JsonValue(text, 0))

----------------------------------------------------------------------------
(* Format capability registry (getFormatSupport) *)

FormatRecord(readGPS, writeGPS, readMeta, writeMeta, method, notes) ==
    [canReadGPS |-> Bool(readGPS), canWriteGPS |-> Bool(writeGPS),
     canReadMetadata |-> Bool(readMeta), canWriteMetadata |-> Bool(writeMeta),
     method |-> method, notes |-> notes]

formats ==
    [m \in {"image/jpeg", "image/jpg", "image/tiff", "image/webp", "image/png",
            "image/heic", "image/heif"} |->
        CASE m \in {"image/jpeg", "image/jpg"} ->
               FormatRecord(TRUE, TRUE, TRUE, TRUE, "exif",
                            "Full EXIF support - recommended format")
          [] m = "image/tiff" ->
               FormatRecord(TRUE, TRUE, TRUE, TRUE, "exif",
                            "Full EXIF support, larger file sizes")
          [] m = "image/webp" ->
               FormatRecord(TRUE, TRUE, TRUE, TRUE, "riff", "RIFF-based metadata support")
          [] m = "image/png" ->
               FormatRecord(TRUE, TRUE, TRUE, TRUE, "custom",
                            "Custom PNG text chunks for GPS")
          [] OTHER ->
               FormatRecord(TRUE, FALSE, TRUE, FALSE, "exif",
                            "Read-only support, convert to JPEG for writing")]

\* The names every object literal inherits from Object.prototype: formats[name]
\* is then a function or object of the runtime, which has none of the fields.
ObjectPrototypeKeys ==
    {"constructor", "toString", "valueOf", "hasOwnProperty", "isPrototypeOf",
     "propertyIsEnumerable", "toLocaleString", "__proto__"}
InheritedMember ==
    [canReadGPS |-> Undefined, canWriteGPS |-> Undefined,
     canReadMetadata |-> Undefined, canWriteMetadata |-> Undefined,
     method |-> "undefined", notes |-> "undefined"]

\* A registry whose fallback record allows writing.
getFormatSupportFallbackWritable(mimeType) ==
    IF mimeType \in DOMAIN formats THEN formats[mimeType]
    ELSE FormatRecord(FALSE, FALSE, FALSE, TRUE, "custom", "Unsupported format")
getFormatSupport(mimeType) ==
    IF mimeType \in DOMAIN formats THEN formats[mimeType]
    ELSE IF mimeType \in ObjectPrototypeKeys THEN InheritedMember
    ELSE FormatRecord(FALSE, FALSE, FALSE, FALSE, "custom", "Unsupported format")

----------------------------------------------------------------------------
(* MetadataInfo and the coordinate converter *)

\* {}: every field absent.
EmptyMetadata ==
    [gps |-> Undefined, keywords |-> Undefined, description |-> Undefined,
     dateTime |-> Undefined, cameraMake |-> Undefined, cameraModel |-> Undefined]
\* { lat, lon }
Gps(lat, lon) == [t |-> "gps", lat |-> lat, lon |-> lon]

\* The outcome of a reader's try block: a record returned or an error thrown.
Returned(metadata) == [threw |-> FALSE, value |-> metadata]
Thrown == [threw |-> TRUE, value |-> EmptyMetadata]
\* A catch block that lets the error through.
RethrowAll(outcome) == outcome
\* catch (error) { console.error(...); return {}; }
CatchAll(outcome) == IF outcome.threw THEN Returned(EmptyMetadata) ELSE outcome

\* decimalToGPS(decimal) = [degrees, minutes, Math.round(seconds * 100) / 100],
\* one operator per statement, each value handed on as an argument:
\*   seconds = (minutesFloat - minutes) * 60
\*   minutes = Math.floor(minutesFloat)
\*   minutesFloat = (absolute - degrees) * 60
\*   degrees = Math.floor(absolute)
\*   absolute = Math.abs(decimal)
GpsWithSeconds(degrees, minutes, seconds) ==
    << degrees, minutes, NumDivInt(NumRound(NumMulInt(seconds, 100)), 100) >>
GpsWithMinutes(degrees, minutesFloat, minutes) ==
    GpsWithSeconds(degrees, minutes, NumMulInt(NumSub(minutesFloat, minutes), 60))
GpsWithMinutesFloat(degrees, minutesFloat) ==
    GpsWithMinutes(degrees, minutesFloat, NumFloor(minutesFloat))
GpsWithDegrees(absolute, degrees) ==
    GpsWithMinutesFloat(degrees, NumMulInt(NumSub(absolute, degrees), 60))
GpsOfAbsolute(absolute) == GpsWithDegrees(absolute, NumFloor(absolute))
\* Math.abs of undefined is NaN, and so is every value computed from it.
decimalToGPS(decimal) ==
    IF IsNum(decimal) THEN GpsOfAbsolute(NumAbs(decimal)) ELSE << NaN, NaN, NaN >>

S_S == << 83 >>
S_W == << 87 >>
S_N == << 78 >>
S_E == << 69 >>

\* if (ref === "S" || ref === "W") decimal = -decimal
GpsSigned(decimal, ref) ==
    IF ref = Str(S_S) \/ ref = Str(S_W) THEN JsNegate(decimal) ELSE decimal
\* gpsToDecimal(gpsArray, ref): the elements are added and divided as the
\* values they are at run time.
gpsToDecimal(gpsArray, ref) ==
    IF Falsy(gpsArray) \/ Len(gpsArray.a) < 3 THEN IntNum(0)
    ELSE GpsSigned(JsAdd(JsAdd(gpsArray.a[1], JsDivInt(gpsArray.a[2], 60)),
                         JsDivInt(gpsArray.a[3], 3600)),
                   ref)

----------------------------------------------------------------------------
(* PNG chunk codec *)

PngSignature == << 137, 80, 78, 71, 13, 10, 26, 10 >>    \* 89 50 4e 47 0d 0a 1a 0a

T_tEXt == << 116, 69, 88, 116 >>
T_iTXt == << 105, 84, 88, 116 >>
T_zTXt == << 122, 84, 88, 116 >>
T_IHDR == << 73, 72, 68, 82 >>

\* The keyword and text readPNGMetadata takes from a text chunk's data.
PngTextOf(chunkType, chunkData) ==
    IF chunkType = T_tEXt
    THEN LET nullIndex == IndexOf(chunkData, 0)
         IN  [keyword |-> Latin1Decode(Subarray(chunkData, 0, nullIndex)),
              text |-> Latin1Decode(SubarrayFrom(chunkData, nullIndex + 1))]
    ELSE IF chunkType = T_iTXt
    THEN LET nullIndex == IndexOf(chunkData, 0)
             secondNull == IndexOfFrom(chunkData, 0, nullIndex + 1)
             thirdNull == IndexOfFrom(chunkData, 0, secondNull + 1)
             fourthNull == IndexOfFrom(chunkData, 0, thirdNull + 1)
         IN  [keyword |-> Utf8Decode(Subarray(chunkData, 0, nullIndex)),
              text |-> Utf8Decode(SubarrayFrom(chunkData, fourthNull + 1))]
    ELSE [keyword |-> <<>>, text |-> <<>>]

\* The GPS branch without the "lat,lon" fallback of the catch block.
PngGpsFromJsonOnly(metadata, text) ==
    LET parsed == JsonParse(text)
        lat == GetProp(parsed.value, K_lat)
        lon == GetProp(parsed.value, K_lon)
    IN  IF ~parsed.threw /\ ~lat.threw /\ Truthy(lat.value) /\ Truthy(lon.value)
        THEN [metadata EXCEPT !.gps = Gps(parseFloat(lat.value), parseFloat(lon.value))]
        ELSE metadata
\* The GPS branch of readPNGMetadata: JSON first, "lat,lon" when that throws.
PngGpsFromPair(metadata, count, lat, lon) ==
    IF count = 2 /\ IsNum(lat) /\ IsNum(lon)
    THEN [metadata EXCEPT !.gps = Gps(lat, lon)]
    ELSE metadata
PngGpsFromCoords(metadata, coords) ==
    PngGpsFromPair(metadata, Len(coords),
                   parseFloat(Str(Trim(coords[1]))), parseFloat(Str(Trim(coords[2]))))
PngGpsFromJson(metadata, text, parsed, lat, lon) ==
    IF ~parsed.threw /\ ~lat.threw
    THEN IF Truthy(lat.value) /\ Truthy(lon.value)
         THEN [metadata EXCEPT !.gps = Gps(parseFloat(lat.value), parseFloat(lon.value))]
         ELSE metadata
    ELSE PngGpsFromCoords(metadata, Split(text, 44))
PngGpsParsed(metadata, text, parsed) ==
    PngGpsFromJson(metadata, text, parsed,
                   GetProp(parsed.value, K_lat), GetProp(parsed.value, K_lon))
PngGpsFromText(metadata, text) == PngGpsParsed(metadata, text, JsonParse(text))

\* The effect of one tEXt / iTXt / zTXt chunk on the record being built: the
\* six tests of readPNGMetadata on the lower-cased keyword, in order.
PngSetGps(metadata, keywordLower, text) ==
    IF Includes(keywordLower, << 103, 112, 115 >>) \/ keywordLower = << 103, 112, 115, 95, 108, 111, 99, 97, 116, 105, 111, 110 >>
    THEN PngGpsFromText(metadata, text) ELSE metadata
PngSetDescription(metadata, keywordLower, text) ==
    IF \/ Includes(keywordLower, << 100, 101, 115, 99, 114, 105, 112, 116, 105, 111, 110 >>)
       \/ keywordLower = << 99, 111, 109, 109, 101, 110, 116 >>
       \/ keywordLower = << 116, 105, 116, 108, 101 >>
       \/ Includes(keywordLower, << 99, 97, 112, 116, 105, 111, 110 >>)
    THEN [metadata EXCEPT !.description = Str(text)] ELSE metadata
PngSetKeywords(metadata, keywordLower, text) ==
    IF \/ Includes(keywordLower, << 107, 101, 121, 119, 111, 114, 100, 115 >>)
       \/ keywordLower = << 115, 117, 98, 106, 101, 99, 116 >>
       \/ Includes(keywordLower, << 116, 97, 103, 115 >>)
    THEN [metadata EXCEPT !.keywords = Str(text)] ELSE metadata
PngSetDateTime(metadata, keywordLower, text) ==
    IF \/ Includes(keywordLower, << 99, 114, 101, 97, 116, 105, 111, 110 >>)
       \/ Includes(keywordLower, << 100, 97, 116, 101 >>)
       \/ Includes(keywordLower, << 116, 105, 109, 101 >>)
    THEN [metadata EXCEPT !.dateTime = Str(text)] ELSE metadata
PngSetCameraMake(metadata, keywordLower, text) ==
    IF Includes(keywordLower, << 99, 97, 109, 101, 114, 97 >>) \/ Includes(keywordLower, << 109, 97, 107, 101 >>)
    THEN [metadata EXCEPT !.cameraMake = Str(text)] ELSE metadata
PngSetCameraModel(metadata, keywordLower, text) ==
    IF Includes(keywordLower, << 109, 111, 100, 101, 108 >>) /\ ~Includes(keywordLower, << 109, 97, 107, 101 >>)
    THEN [metadata EXCEPT !.cameraModel = Str(text)] ELSE metadata
PngApplyLower(metadata, keywordLower, text) ==
    PngSetCameraModel(
        PngSetCameraMake(
            PngSetDateTime(
                PngSetKeywords(
                    PngSetDescription(PngSetGps(metadata, keywordLower, text),
                                      keywordLower, text),
                    keywordLower, text),
                keywordLower, text),
            keywordLower, text),
        keywordLower, text)
PngApplyText(metadata, keyword, text) == PngApplyLower(metadata, ToLowerCase(keyword), text)

\* The chunk loop of readPNGMetadata, from `offset` on.
RECURSIVE ReadPNGChunks(_, _, _)
PngApplyChunkText(metadata, tk) == PngApplyText(metadata, tk.keyword, tk.text)
PngChunkEffect(metadata, chunkType, chunkData) ==
    IF chunkType \in {T_tEXt, T_iTXt, T_zTXt}
    THEN PngApplyChunkText(metadata, PngTextOf(chunkType, chunkData))
    ELSE metadata
PngAfterChunk(imageBuffer, offset, metadata, next) ==
    IF next = metadata THEN ReadPNGChunks(imageBuffer, offset, metadata)
    ELSE ReadPNGChunks(imageBuffer, offset, next)
ReadPNGChunkAt(imageBuffer, offset, chunkLength, metadata) ==
    PngAfterChunk(imageBuffer, offset + 12 + chunkLength, metadata,
                  PngChunkEffect(metadata,
                                 Utf8Decode(Subarray(imageBuffer, offset + 4, offset + 8)),
                                 Subarray(imageBuffer, offset + 8, offset + 8 + chunkLength)))
ReadPNGChunks(imageBuffer, offset, metadata) ==
    IF ~(offset < Len(imageBuffer) - 8) THEN metadata
    ELSE ReadPNGChunkAt(imageBuffer, offset, ReadUInt32BE(imageBuffer, offset), metadata)

\* readPNGMetadata: a wrong signature throws, and the function's own
\* try / catch turns whatever is thrown into {}.
readPNGMetadata(imageBuffer) ==
    CatchAll(IF Subarray(imageBuffer, 0, 8) # PngSignature THEN Thrown
             ELSE Returned(ReadPNGChunks(imageBuffer, 8, EmptyMetadata)))

\* chunk.write(type, 4) / chunkHeader.write(type, 0): the UTF-8 bytes of the
\* type string, of which the four-byte field keeps the first four.
WriteTypeField(type) == Subarray(Utf8Encode(type), 0, 4)

\* A chunk buffer of 12 + dataLength bytes: the length field, the type and
\* data fields as written, and the CRC of chunk.subarray(4, 8 + dataLength).
PngChunkBuffer(dataLength, typeAndData) ==
    U32BE(dataLength) \o typeAndData
    \o calculateCRC32(Subarray(typeAndData, 0, 4 + dataLength))
\* iTXt: keyword, NUL, compression flag 0 and method 0, empty language tag,
\* NUL, empty translated keyword, NUL, text.
PngInternationalText(keywordBuffer, textBuffer) ==
    PngChunkBuffer(Len(keywordBuffer) + 1 + 1 + 1 + 0 + 1 + 0 + 1 + Len(textBuffer),
                   T_iTXt \o keywordBuffer \o << 0 >> \o << 0 >> \o << 0 >>
                   \o << 0 >> \o << 0 >> \o textBuffer)
\* tEXt: keyword, NUL, text.
PngLatinText(keywordBuffer, textBuffer) ==
    PngChunkBuffer(Len(keywordBuffer) + 1 + Len(textBuffer),
                   T_tEXt \o keywordBuffer \o << 0 >> \o textBuffer)
\* createPNGTextChunk(keyword, text): iTXt when either holds a non-ASCII
\* character, tEXt otherwise.
createPNGTextChunk(keyword, text) ==
    IF HasNonAscii(text) \/ HasNonAscii(keyword)
    THEN PngInternationalText(Utf8Encode(keyword), Utf8Encode(text))
    ELSE PngLatinText(Latin1Encode(keyword), Latin1Encode(text))

\* A skip list that forgets the two chunks every write adds ("software",
\* "creation").
PngSkipsUserFields(chunkType, chunkData) ==
    /\ chunkType = T_tEXt \/ chunkType = T_iTXt
    /\ LET nullIndex == IndexOf(chunkData, 0)
           keyword == ToLowerCase(Utf8Decode(Subarray(chunkData, 0, nullIndex)))
       IN  /\ nullIndex > 0
           /\ \/ Includes(keyword, << 103, 112, 115 >>)
              \/ Includes(keyword, << 108, 111, 99, 97, 116, 105, 111, 110 >>)
              \/ Includes(keyword, << 107, 101, 121, 119, 111, 114, 100, 115 >>)
              \/ Includes(keyword, << 100, 101, 115, 99, 114, 105, 112, 116, 105, 111, 110 >>)
              \/ keyword \in {<< 116, 105, 116, 108, 101 >>, << 99, 111, 109, 109, 101, 110, 116 >>, << 115, 117, 98, 106, 101, 99, 116 >>}

\* The keywords writePNGMetadata treats as its own.
PngOwnKeyword(keyword) ==
    \/ Includes(keyword, << 103, 112, 115 >>)
    \/ Includes(keyword, << 108, 111, 99, 97, 116, 105, 111, 110 >>)
    \/ Includes(keyword, << 107, 101, 121, 119, 111, 114, 100, 115 >>)
    \/ Includes(keyword, << 100, 101, 115, 99, 114, 105, 112, 116, 105, 111, 110 >>)
    \/ keyword = << 116, 105, 116, 108, 101 >>
    \/ keyword = << 99, 111, 109, 109, 101, 110, 116 >>
    \/ keyword = << 115, 117, 98, 106, 101, 99, 116 >>
    \/ keyword = << 115, 111, 102, 116, 119, 97, 114, 101 >>
    \/ Includes(keyword, << 99, 114, 101, 97, 116, 105, 111, 110 >>)
PngKeywordBefore(chunkData, nullIndex) ==
    nullIndex > 0 /\ PngOwnKeyword(ToLowerCase(Utf8Decode(Subarray(chunkData, 0, nullIndex))))
\* Whether writePNGMetadata drops an input chunk: a tEXt / iTXt chunk whose
\* keyword is one of the writer's own.
PngSkipsChunk(chunkType, chunkData) ==
    /\ chunkType = T_tEXt \/ chunkType = T_iTXt
    /\ PngKeywordBefore(chunkData, IndexOf(chunkData, 0))

K_GPS_Location == << 71, 80, 83, 95, 76, 111, 99, 97, 116, 105, 111, 110 >>
K_GPS_Coordinates == << 71, 80, 83, 95, 67, 111, 111, 114, 100, 105, 110, 97, 116, 101, 115 >>
K_Location == << 76, 111, 99, 97, 116, 105, 111, 110 >>
K_Geolocation == << 71, 101, 111, 108, 111, 99, 97, 116, 105, 111, 110 >>
K_Description == << 68, 101, 115, 99, 114, 105, 112, 116, 105, 111, 110 >>
K_Comment == << 67, 111, 109, 109, 101, 110, 116 >>
K_Title == << 84, 105, 116, 108, 101 >>
K_Keywords == << 75, 101, 121, 119, 111, 114, 100, 115 >>
K_Subject == << 83, 117, 98, 106, 101, 99, 116 >>
K_CreationTime == << 67, 114, 101, 97, 116, 105, 111, 110, 32, 84, 105, 109, 101 >>
K_Software == << 83, 111, 102, 116, 119, 97, 114, 101 >>
SoftwareName == << 85, 110, 105, 118, 101, 114, 115, 97, 108, 32, 71, 101, 111, 73, 109, 103, 114, 32, 84, 111, 111, 108, 32, 118, 50, 46, 48 >>

\* The chunks writePNGMetadata adds after IHDR, as << keyword, text >> in the
\* order of the createPNGTextChunk calls; now1 and now2 are the two readings
\* of the clock (new Date().toISOString()).
PngGpsTexts(lat, lon, latText, lonText, now1) ==
    << << K_GPS_Location,
          JsonStringify(Obj(<< << K_lat, lat >>, << K_lon, lon >>,
                               << K_timestamp, Str(now1) >> >>)) >>,
       << K_GPS_Coordinates, latText \o << 44 >> \o lonText >>,
       << K_Location, << 108, 97, 116, 61 >> \o latText \o << 59, 108, 111, 110, 61 >> \o lonText >>,
       << K_Geolocation, latText \o << 124 >> \o lonText >> >>
PngGpsChunks(metadata, now1) ==
    IF Truthy(metadata.gps) /\ metadata.gps.lat.t # "undef" /\ metadata.gps.lon.t # "undef"
    THEN PngGpsTexts(metadata.gps.lat, metadata.gps.lon,
                     JsToString(metadata.gps.lat), JsToString(metadata.gps.lon), now1)
    ELSE <<>>
PngDescriptionTexts(text) ==
    << << K_Description, text >>, << K_Comment, text >>, << K_Title, text >> >>
PngDescriptionChunks(metadata) ==
    IF Truthy(metadata.description) /\ Trim(metadata.description.s) # <<>>
    THEN PngDescriptionTexts(Trim(metadata.description.s))
    ELSE <<>>
PngKeywordsTexts(text) == << << K_Keywords, text >>, << K_Subject, text >> >>
PngKeywordsChunks(metadata) ==
    IF Truthy(metadata.keywords) /\ Trim(metadata.keywords.s) # <<>>
    THEN PngKeywordsTexts(Trim(metadata.keywords.s))
    ELSE <<>>
PngTextChunks(texts) ==
    [i \in 1..Len(texts) |-> createPNGTextChunk(texts[i][1], texts[i][2])]
\* The keyword chunks pushed before the description chunks.
PngNewChunksKeywordsFirst(metadata, now1, now2) ==
    PngTextChunks(PngGpsChunks(metadata, now1)
                  \o PngKeywordsChunks(metadata)
                  \o PngDescriptionChunks(metadata)
                  \o << << K_CreationTime, now2 >>, << K_Software, SoftwareName >> >>)
PngNewChunks(metadata, now1, now2) ==
    PngTextChunks(PngGpsChunks(metadata, now1)
                  \o PngDescriptionChunks(metadata)
                  \o PngKeywordsChunks(metadata)
                  \o << << K_CreationTime, now2 >>, << K_Software, SoftwareName >> >>)

\* The chunk loop of writePNGMetadata: `chunks` is the list of buffers built so
\* far.  Reading the CRC of a chunk that runs past the end is a RangeError.
RECURSIVE WritePNGChunks(_, _, _, _, _, _)
\* chunks.push(chunk), then the new chunks when this is the first IHDR.
\* The new chunks pushed behind the first chunk, whatever its type.
PngPushedBehindFirst(st, chunk, insert, newChunks) ==
    [threw |-> FALSE,
     addedMetadata |-> TRUE,
     chunks |-> st.chunks \o << chunk >> \o (IF st.addedMetadata THEN <<>> ELSE newChunks)]
PngPushed(st, chunk, insert, newChunks) ==
    [threw |-> FALSE,
     addedMetadata |-> st.addedMetadata \/ insert,
     chunks |-> st.chunks \o << chunk >> \o (IF insert THEN newChunks ELSE <<>>)]
PngAfterPush(imageBuffer, metadata, now1, now2, offset, next) ==
    IF next.chunks = <<>> THEN next
    ELSE WritePNGChunks(imageBuffer, metadata, now1, now2, offset, next)
\* The chunk is rebuilt from its length, type, data and the CRC as read.
PngCopyChunk(imageBuffer, metadata, now1, now2, offset, chunkLength, chunkType, chunkData, st) ==
    PngAfterPush(imageBuffer, metadata, now1, now2, offset + 12 + chunkLength,
                 PngPushed(st,
                           U32BE(chunkLength) \o WriteTypeField(chunkType) \o chunkData
                           \o Subarray(imageBuffer, offset + 8 + chunkLength,
                                       offset + 12 + chunkLength),
                           chunkType = T_IHDR /\ ~st.addedMetadata,
                           PngNewChunks(metadata, now1, now2)))
WritePNGChunkAt(imageBuffer, metadata, now1, now2, offset, chunkLength, chunkType, chunkData, st) ==
    IF ~InRange(imageBuffer, offset + 8 + chunkLength, 4)
    THEN [st EXCEPT !.threw = TRUE]
    ELSE IF PngSkipsChunk(chunkType, chunkData)
    THEN WritePNGChunks(imageBuffer, metadata, now1, now2, offset + 12 + chunkLength, st)
    ELSE PngCopyChunk(imageBuffer, metadata, now1, now2, offset, chunkLength,
                      chunkType, chunkData, st)
WritePNGChunkOf(imageBuffer, metadata, now1, now2, offset, chunkLength, st) ==
    WritePNGChunkAt(imageBuffer, metadata, now1, now2, offset, chunkLength,
                    Utf8Decode(Subarray(imageBuffer, offset + 4, offset + 8)),
                    Subarray(imageBuffer, offset + 8, offset + 8 + chunkLength), st)
WritePNGChunks(imageBuffer, metadata, now1, now2, offset, st) ==
    IF ~(offset < Len(imageBuffer) - 8) THEN st
    ELSE WritePNGChunkOf(imageBuffer, metadata, now1, now2, offset,
                         ReadUInt32BE(imageBuffer, offset), st)

\* writePNGMetadata(imageBuffer, metadata): [threw, buffer].
PngWritten(st) ==
    IF st.threw THEN [threw |-> TRUE, buffer |-> <<>>]
    ELSE [threw |-> FALSE, buffer |-> Concat(st.chunks)]
writePNGMetadata(imageBuffer, metadata, now1, now2) ==
    PngWritten(WritePNGChunks(imageBuffer, metadata, now1, now2, 8,
                              [threw |-> FALSE, addedMetadata |-> FALSE,
                               chunks |-> << PngSignature >>]))

----------------------------------------------------------------------------
(* The EXIF library (piexifjs): dump, load and insert, as the codec uses them.
   An EXIF object holds the ten tags the codec reads or writes, each a
   JavaScript value or undefined.  The TIFF block is laid out as the header
   followed by the 0th and the GPS directory, each a count and its entries
   (tag, type, count, value bytes) in tag order; values have the library's
   types: BYTE lists, NUL-terminated ASCII, RATIONAL pairs of unsigned 32-bit
   big-endian integers.  Code points of the model's texts are below 256. *)

ExifHeader == << 69, 120, 105, 102, 0, 0 >>
TiffHeader == << 77, 77, 0, 42, 0, 0, 0, 8 >>

ZerothTags == << "ImageDescription", "Make", "Model", "DateTime", "XPKeywords" >>
GpsTags == << "GPSVersionID", "GPSLatitudeRef", "GPSLatitude", "GPSLongitudeRef", "GPSLongitude" >>
\* piexif.ImageIFD.* and piexif.GPSIFD.*
TagNumber ==
    [ImageDescription |-> 270, Make |-> 271, Model |-> 272, DateTime |-> 306,
     XPKeywords |-> 40094, GPSVersionID |-> 0, GPSLatitudeRef |-> 1,
     GPSLatitude |-> 2, GPSLongitudeRef |-> 3, GPSLongitude |-> 4]
TypeByte == 1
TypeAscii == 2
TypeRational == 5
TagType ==
    [ImageDescription |-> TypeAscii, Make |-> TypeAscii, Model |-> TypeAscii,
     DateTime |-> TypeAscii, XPKeywords |-> TypeByte, GPSVersionID |-> TypeByte,
     GPSLatitudeRef |-> TypeAscii, GPSLatitude |-> TypeRational,
     GPSLongitudeRef |-> TypeAscii, GPSLongitude |-> TypeRational]

\* { "0th": {}, Exif: {}, GPS: {}, "1st": {}, thumbnail: null }
EmptyExif == [name \in DOMAIN TagNumber |-> Undefined]

IsByteValue(v) == v.t = "num" /\ v.d = 1 /\ v.n >= 0 /\ v.n < 256
\* pack(">L", [val]) throws for val < 0 or val > 0xffffffff; NaN passes both
\* tests and String.fromCharCode(NaN) is the zero byte.
IsLong(v) == v.t = "nan" \/ (v.t = "num" /\ v.d = 1 /\ v.n >= 0)
LongBytes(v) == IF v.t = "nan" THEN U32BE(0) ELSE U32BE(v.n)
IsPair(v) ==
    /\ v.t = "arr" /\ Len(v.a) = 2
    /\ \A i \in 1..2 : IsLong(v.a[i])
PairBytes(v) == LongBytes(v.a[1]) \o LongBytes(v.a[2])

\* Whether dump can pack the value as the tag's type (it throws otherwise).
Packable(type, v) ==
    CASE type = TypeByte ->
           IsByteValue(v) \/ (v.t = "arr" /\ \A i \in 1..Len(v.a) : IsByteValue(v.a[i]))
      [] type = TypeAscii -> v.t = "str"
      [] OTHER -> IsPair(v) \/ (v.t = "arr" /\ \A i \in 1..Len(v.a) : IsPair(v.a[i]))
\* The count and the value bytes of one entry.
PackedCount(type, v) ==
    CASE type = TypeByte -> IF v.t = "arr" THEN Len(v.a) ELSE 1
      [] type = TypeAscii -> Len(v.s) + 1
      [] OTHER -> IF IsPair(v) THEN 1 ELSE Len(v.a)
PackedValue(type, v) ==
    CASE type = TypeByte -> IF v.t = "arr" THEN [i \in 1..Len(v.a) |-> v.a[i].n] ELSE << v.n >>
      [] type = TypeAscii -> Latin1Encode(v.s) \o << 0 >>
      [] OTHER -> IF IsPair(v) THEN PairBytes(v)
                  ELSE Concat([i \in 1..Len(v.a) |-> PairBytes(v.a[i])])
ExifEntry(name, v) ==
    U16BE(TagNumber[name]) \o U16BE(TagType[name])
    \o U32BE(PackedCount(TagType[name], v)) \o PackedValue(TagType[name], v)
\* One directory: the number of tags present, then their entries.
ExifDirectory(exifObj, names) ==
    LET present == SelectSeq(names, LAMBDA name : exifObj[name].t # "undef")
    IN  U16BE(Len(present)) \o Concat([i \in 1..Len(present) |-> ExifEntry(present[i], exifObj[present[i]])])

\* piexif.dump(exifObj): "Exif\0\0" and the TIFF block, as [threw, bytes].
PiexifDump(exifObj) ==
    IF \E name \in DOMAIN TagNumber :
          exifObj[name].t # "undef" /\ ~Packable(TagType[name], exifObj[name])
    THEN [threw |-> TRUE, bytes |-> <<>>]
    ELSE [threw |-> FALSE,
          bytes |-> ExifHeader \o TiffHeader
                    \o ExifDirectory(exifObj, ZerothTags) \o ExifDirectory(exifObj, GpsTags)]

\* The value load returns for an entry: a list of one element is that element.
Unwrapped(list) == IF Len(list) = 1 THEN list[1] ELSE Arr(list)
UnpackedValue(type, count, bytes) ==
    CASE type = TypeAscii -> Str(Latin1Decode(Subarray(bytes, 0, count - 1)))
      [] type = TypeByte -> Unwrapped([i \in 1..count |-> IntNum(bytes[i])])
      [] OTHER -> Unwrapped([i \in 1..count |->
                                Arr(<< IntNum(ReadUInt32BE(bytes, 8 * (i - 1))),
                                       IntNum(ReadUInt32BE(bytes, 8 * (i - 1) + 4)) >>)])
ValueLength(type, count) == IF type = TypeRational THEN 8 * count ELSE count

\* The entries of one directory read from position pos: [ok, pos, exifObj].
RECURSIVE LoadEntries(_, _, _, _, _)
\* The object with the entry's value stored under the tag's name, when the
\* directory knows the tag.
WithEntry(exifObj, names, known, value) ==
    IF known = {} THEN exifObj
    ELSE [exifObj EXCEPT ![names[CHOOSE i \in known : TRUE]] = value]
LoadEntry(tiff, pos, remaining, names, exifObj, tag, type, count, length) ==
    IF type \notin {TypeByte, TypeAscii, TypeRational} \/ ~InRange(tiff, pos + 8, length)
    THEN [ok |-> FALSE, pos |-> pos, exifObj |-> exifObj]
    ELSE LoadEntries(tiff, pos + 8 + length, remaining - 1, names,
                     WithEntry(exifObj, names,
                               {i \in 1..Len(names) : TagNumber[names[i]] = tag},
                               UnpackedValue(type, count,
                                             Subarray(tiff, pos + 8, pos + 8 + length))))
LoadEntryFields(tiff, pos, remaining, names, exifObj, type, count) ==
    LoadEntry(tiff, pos, remaining, names, exifObj, ReadUInt16BE(tiff, pos), type, count,
              ValueLength(type, count))
LoadEntries(tiff, pos, remaining, names, exifObj) ==
    IF remaining = 0 THEN [ok |-> TRUE, pos |-> pos, exifObj |-> exifObj]
    ELSE IF ~InRange(tiff, pos, 8) THEN [ok |-> FALSE, pos |-> pos, exifObj |-> exifObj]
    ELSE LoadEntryFields(tiff, pos, remaining, names, exifObj,
                         ReadUInt16BE(tiff, pos + 2), ReadUInt32BE(tiff, pos + 4))
LoadDirectory(tiff, pos, names, exifObj) ==
    IF ~InRange(tiff, pos, 2) THEN [ok |-> FALSE, pos |-> pos, exifObj |-> exifObj]
    ELSE LoadEntries(tiff, pos + 2, ReadUInt16BE(tiff, pos), names, exifObj)

\* The TIFF block read back into an EXIF object: [threw, exifObj].
LoadedTiff(tiff, zeroth, gps) ==
    IF Subarray(tiff, 0, Len(TiffHeader)) # TiffHeader \/ ~zeroth.ok \/ ~gps.ok
    THEN [threw |-> TRUE, exifObj |-> EmptyExif]
    ELSE [threw |-> FALSE, exifObj |-> gps.exifObj]
LoadGpsDirectory(tiff, zeroth) ==
    LoadedTiff(tiff, zeroth, LoadDirectory(tiff, zeroth.pos, GpsTags, zeroth.exifObj))
LoadTiff(tiff) ==
    LoadGpsDirectory(tiff, LoadDirectory(tiff, Len(TiffHeader), ZerothTags, EmptyExif))

JpegSOI == << 255, 216 >>
JpegSOS == << 255, 218 >>
JpegAPP1 == << 255, 225 >>

\* splitIntoSegments(data): the marker segments of a JPEG, the last one
\* running from the start-of-scan marker to the end: [threw, segments].
RECURSIVE SplitSegments(_, _, _)
SplitSegments(data, head, segments) ==
    IF Subarray(data, head, head + 2) = JpegSOS
    THEN [threw |-> FALSE, segments |-> segments \o << SubarrayFrom(data, head) >>]
    ELSE IF Len(Subarray(data, head + 2, head + 4)) < 2
    THEN [threw |-> TRUE, segments |-> <<>>]
    ELSE LET length == ReadUInt16BE(data, head + 2)
             endPoint == head + length + 2
         IN  IF endPoint >= Len(data) THEN [threw |-> TRUE, segments |-> <<>>]
             ELSE SplitSegments(data, endPoint, segments \o << Subarray(data, head, endPoint) >>)
splitIntoSegments(data) ==
    IF Subarray(data, 0, 2) # JpegSOI THEN [threw |-> TRUE, segments |-> <<>>]
    ELSE SplitSegments(data, 2, << JpegSOI >>)

IsExifSegment(segment) ==
    Subarray(segment, 0, 2) = JpegAPP1 /\ Subarray(segment, 4, 10) = ExifHeader

\* mergeSegments(segments, exif): the first APP1 Exif segment is replaced and
\* the others are removed; without one the new segment follows the SOI marker.
MergedAt(segments, exif, found) ==
    IF found = {} THEN << segments[1], exif >> \o Tail(segments)
    ELSE Concat([i \in 1..Len(segments) |->
                    IF i = Least(found) THEN << exif >>
                    ELSE IF i \in found THEN <<>> ELSE << segments[i] >>])
mergeSegments(segments, exif) ==
    MergedAt(segments, exif, {i \in 1..Len(segments) : IsExifSegment(segments[i])})

\* piexif.insert(exifBytes, dataUrl): [threw, message, bytes].  The data URL
\* carries the image bytes unchanged (base64 out, base64 back).
InsertedInto(split, exifStr) ==
    IF split.threw
    THEN [threw |-> TRUE, message |-> "Wrong JPEG data.", bytes |-> <<>>]
    ELSE [threw |-> FALSE, message |-> "",
          bytes |-> Concat(mergeSegments(split.segments, exifStr))]
PiexifInsert(exif, jpeg) ==
    IF Subarray(exif, 0, 6) # ExifHeader
    THEN [threw |-> TRUE, message |-> "Given data is not exif.", bytes |-> <<>>]
    ELSE IF Subarray(jpeg, 0, 2) # JpegSOI
    THEN [threw |-> TRUE, message |-> "Given data isn't JPEG.", bytes |-> <<>>]
    ELSE InsertedInto(splitIntoSegments(jpeg), JpegAPP1 \o U16BE(Len(exif) + 2) \o exif)

\* piexif.load(dataUrl): the EXIF object of a JPEG (that of its first APP1
\* Exif segment, the empty object without one), of a bare TIFF block, or of
\* bytes that start with "Exif": [threw, exifObj].
\* The TIFF block load decodes, as [kind, tiff]: kind is "tiff", "none" when a
\* JPEG has no Exif segment, "threw" when the data is none of the three.
NoBlock(kind) == [kind |-> kind, tiff |-> <<>>]
TiffBlock(tiff) == [kind |-> "tiff", tiff |-> tiff]
SegmentBlock(segments, found) ==
    IF found = {} THEN NoBlock("none")
    ELSE TiffBlock(SubarrayFrom(segments[Least(found)], 10))
JpegBlock(split) ==
    IF split.threw THEN NoBlock("threw")
    ELSE SegmentBlock(split.segments,
                      {i \in 1..Len(split.segments) : IsExifSegment(split.segments[i])})
ExifBlock(data) ==
    IF Subarray(data, 0, 2) = JpegSOI THEN JpegBlock(splitIntoSegments(data))
    ELSE IF Subarray(data, 0, 2) \in {<< 73, 73 >>, << 77, 77 >>} THEN TiffBlock(data)
    ELSE IF Subarray(data, 0, 4) = Subarray(ExifHeader, 0, 4)
    THEN TiffBlock(SubarrayFrom(data, 6))
    ELSE NoBlock("threw")
LoadedBlock(block) ==
    CASE block.kind = "threw" -> [threw |-> TRUE, exifObj |-> EmptyExif]
      [] block.kind = "none" -> [threw |-> FALSE, exifObj |-> EmptyExif]
      [] OTHER -> LoadTiff(block.tiff)
PiexifLoad(data) == LoadedBlock(ExifBlock(data))

----------------------------------------------------------------------------
(* EXIF codec (JPEG, TIFF, HEIC) *)

\* Buffer.from(s, "utf16le") and buf.toString("utf16le"), for code points of
\* the Basic Multilingual Plane; an odd last byte is dropped by the decoder.
Utf16leEncode(s) == Concat([i \in 1..Len(s) |-> << s[i] % 256, s[i] \div 256 >>])
Utf16leDecode(buf) == [i \in 1..(Len(buf) \div 2) |-> buf[2 * i - 1] + 256 * buf[2 * i]]
\* s.replace(/\0/g, "")
RemoveNuls(s) == SelectSeq(s, LAMBDA c : c # 0)

\* Array.from(Buffer.from(keywords + "\0", "utf16le"))
XPKeywordsValue(keywords) ==
    LET keywordsBuffer == Utf16leEncode(keywords \o << 0 >>)
    IN  Arr([i \in 1..Len(keywordsBuffer) |-> IntNum(keywordsBuffer[i])])

\* [[deg, 1], [min, 1], [Math.round(sec * scale), scale]]
RoundedTimes(v, scale) == IF IsNum(v) THEN NumRound(NumMulInt(v, scale)) ELSE NaN
DmsRationals(dms, scale) ==
    Arr(<< Arr(<< RoundedTimes(dms[1], 1), IntNum(1) >>),
           Arr(<< RoundedTimes(dms[2], 1), IntNum(1) >>),
           Arr(<< RoundedTimes(dms[3], scale), IntNum(scale) >>) >>)
\* v >= 0, which is false for undefined.
AtLeastZero(v) == IsNum(v) /\ NumLeq(IntNum(0), v)

\* The GPS tags both EXIF writers set: references from the signs, the DMS
\* triples with the seconds over `scale`, and the version.
SetGpsTags(exifObj, lat, lon, latGPS, lonGPS, scale) ==
    [exifObj EXCEPT
        !.GPSLatitude = DmsRationals(latGPS, scale),
        !.GPSLatitudeRef = IF AtLeastZero(lat) THEN Str(S_N) ELSE Str(S_S),
        !.GPSLongitude = DmsRationals(lonGPS, scale),
        !.GPSLongitudeRef = IF AtLeastZero(lon) THEN Str(S_E) ELSE Str(S_W),
        !.GPSVersionID = Arr(<< IntNum(2), IntNum(3), IntNum(0), IntNum(0) >>)]

\* The description and keywords both EXIF writers set when they are truthy.
SetDescriptionTag(exifObj, metadata) ==
    IF Truthy(metadata.description)
    THEN [exifObj EXCEPT !.ImageDescription = metadata.description]
    ELSE exifObj
SetKeywordsTag(exifObj, metadata) ==
    IF Truthy(metadata.keywords)
    THEN [exifObj EXCEPT !.XPKeywords = XPKeywordsValue(metadata.keywords.s)]
    ELSE exifObj
SetTextTags(exifObj, metadata) ==
    SetKeywordsTag(SetDescriptionTag(exifObj, metadata), metadata)

\* The gps readExifMetadata and readWebPMetadata compute once the latitude
\* tag is known to be set: gpsToDecimal of each array with its reference.
GpsOfDecimals(decimals) == Gps(decimals[1], decimals[2])
ExifDecimals(arrays) == [i \in 1..2 |-> gpsToDecimal(arrays[i][1], arrays[i][2])]
ExifGps(metadata, exifObj) ==
    IF /\ Truthy(exifObj.GPSLatitude) /\ Truthy(exifObj.GPSLongitude)
       /\ Truthy(exifObj.GPSLatitudeRef) /\ Truthy(exifObj.GPSLongitudeRef)
    THEN [metadata EXCEPT !.gps =
             GpsOfDecimals(ExifDecimals(<< << exifObj.GPSLatitude, exifObj.GPSLatitudeRef >>,
                                           << exifObj.GPSLongitude, exifObj.GPSLongitudeRef >> >>))]
    ELSE metadata

\* The fields readExifMetadata takes from the loaded object, in order.
ExifSetGps(metadata, exifObj) ==
    IF Truthy(exifObj.GPSLatitude) /\ Truthy(exifObj.GPSLongitude)
    THEN ExifGps(metadata, exifObj) ELSE metadata
ExifSetDescription(metadata, exifObj) ==
    IF Truthy(exifObj.ImageDescription)
    THEN [metadata EXCEPT !.description = exifObj.ImageDescription] ELSE metadata
ExifSetMake(metadata, exifObj) ==
    IF Truthy(exifObj.Make) THEN [metadata EXCEPT !.cameraMake = exifObj.Make] ELSE metadata
ExifSetModel(metadata, exifObj) ==
    IF Truthy(exifObj.Model) THEN [metadata EXCEPT !.cameraModel = exifObj.Model] ELSE metadata
ExifSetDateTime(metadata, exifObj) ==
    IF Truthy(exifObj.DateTime) THEN [metadata EXCEPT !.dateTime = exifObj.DateTime]
    ELSE metadata
\* Buffer.from(xp).toString("utf16le").replace(/\0/g, ""): Buffer.from throws
\* on a value that is no list.
ExifSetKeywords(metadata, xp) ==
    IF ~Truthy(xp) THEN Returned(metadata)
    ELSE IF xp.t # "arr" THEN Thrown
    ELSE Returned([metadata EXCEPT !.keywords =
             Str(RemoveNuls(Utf16leDecode([i \in 1..Len(xp.a) |-> xp.a[i].n])))])
ExifExtract(exifObj) ==
    ExifSetKeywords(
        ExifSetDateTime(
            ExifSetModel(
                ExifSetMake(
                    ExifSetDescription(ExifSetGps(EmptyMetadata, exifObj), exifObj),
                    exifObj),
                exifObj),
            exifObj),
        exifObj.XPKeywords)
ExifLoaded(loaded) == IF loaded.threw THEN Thrown ELSE ExifExtract(loaded.exifObj)
\* readExifMetadata: whatever load or the extraction throws becomes {}.
readExifMetadata(imageBuffer) == CatchAll(ExifLoaded(PiexifLoad(imageBuffer)))

\* writeExifMetadata(imageBuffer, metadata): [threw, message, buffer].  A
\* failing load starts from the empty object; dump and insert may throw.
ExifInserted(inserted) ==
    IF inserted.threw
    THEN [threw |-> TRUE, message |-> inserted.message, buffer |-> <<>>]
    ELSE [threw |-> FALSE, message |-> "", buffer |-> inserted.bytes]
ExifDumped(exifBytes, imageBuffer) ==
    IF exifBytes.threw
    THEN [threw |-> TRUE, message |-> "'pack' error. Got invalid type argument.",
          buffer |-> <<>>]
    ELSE ExifInserted(PiexifInsert(exifBytes.bytes, imageBuffer))
ExifWithGps(exifObj, metadata) ==
    IF Truthy(metadata.gps)
    THEN SetGpsTags(exifObj, metadata.gps.lat, metadata.gps.lon,
                    decimalToGPS(metadata.gps.lat), decimalToGPS(metadata.gps.lon), 100)
    ELSE exifObj
ExifStart(loaded) == IF loaded.threw THEN EmptyExif ELSE loaded.exifObj
writeExifMetadata(imageBuffer, metadata) ==
    ExifDumped(PiexifDump(SetTextTags(ExifWithGps(ExifStart(PiexifLoad(imageBuffer)),
                                                  metadata),
                                      metadata)),
               imageBuffer)

\* createExifChunk(metadata): the bytes of dump for a fresh EXIF object.
ExifChunkWithGps(metadata) ==
    IF /\ Truthy(metadata.gps)
       /\ metadata.gps.lat.t # "undef" /\ metadata.gps.lon.t # "undef"
    THEN SetGpsTags(EmptyExif, metadata.gps.lat, metadata.gps.lon,
                    decimalToGPS(NumAbs(metadata.gps.lat)),
                    decimalToGPS(NumAbs(metadata.gps.lon)), 1000)
    ELSE EmptyExif
ExifChunkOf(exifBytes) ==
    [threw |-> exifBytes.threw, buffer |-> Latin1Encode(exifBytes.bytes)]
createExifChunk(metadata) ==
    ExifChunkOf(PiexifDump(SetTextTags(ExifChunkWithGps(metadata), metadata)))

----------------------------------------------------------------------------
(* WebP RIFF codec *)

T_RIFF == << 82, 73, 70, 70 >>
T_WEBP == << 87, 69, 66, 80 >>
T_EXIF == << 69, 88, 73, 70 >>
T_VP8 == << 86, 80, 56, 32 >>
T_VP8L == << 86, 80, 56, 76 >>
T_VP8X == << 86, 80, 56, 88 >>

\* offset += 8 + chunkSize; if (chunkSize % 2 === 1) offset += 1
NextWebPOffset(offset, chunkSize) == offset + 8 + chunkSize + (chunkSize % 2)

\* What readWebPMetadata takes from the first EXIF chunk; a failing load is
\* caught there and leaves the record as it is.
WebPSetGps(metadata, exifObj) ==
    IF Truthy(exifObj.GPSLatitude) THEN ExifGps(metadata, exifObj) ELSE metadata
WebPLoaded(metadata, loaded) ==
    IF loaded.threw THEN metadata
    ELSE ExifSetDescription(WebPSetGps(metadata, loaded.exifObj), loaded.exifObj)
WebPApplyExif(metadata, exifData) == WebPLoaded(metadata, PiexifLoad(exifData))

\* The chunk loop of readWebPMetadata: it stops at the first EXIF chunk.
RECURSIVE ReadWebPChunks(_, _, _)
ReadWebPChunks(imageBuffer, offset, metadata) ==
    IF ~(offset < Len(imageBuffer) - 8) THEN metadata
    ELSE LET chunkType == Utf8Decode(Subarray(imageBuffer, offset, offset + 4))
             chunkSize == ReadUInt32LE(imageBuffer, offset + 4)
         IN  IF chunkType = T_EXIF
             THEN WebPApplyExif(metadata,
                                Subarray(imageBuffer, offset + 8, offset + 8 + chunkSize))
             ELSE ReadWebPChunks(imageBuffer, NextWebPOffset(offset, chunkSize), metadata)

\* readWebPMetadata: a wrong signature throws, and the throw becomes {}.
readWebPMetadata(imageBuffer) ==
    CatchAll(IF Utf8Decode(Subarray(imageBuffer, 0, 4)) # T_RIFF THEN Thrown
             ELSE IF Utf8Decode(Subarray(imageBuffer, 8, 12)) # T_WEBP THEN Thrown
             ELSE Returned(ReadWebPChunks(imageBuffer, 12, EmptyMetadata)))

\* The parse loop of writeWebPMetadata: every chunk but the EXIF ones, as
\* [type, data] with the data clamped to the buffer.
RECURSIVE ParseWebPChunks(_, _)
ParsedChunk(chunkType, chunkData) ==
    IF chunkType # T_EXIF THEN << [type |-> chunkType, data |-> chunkData] >> ELSE <<>>
ParseWebPChunkAt(imageBuffer, offset, chunkSize) ==
    ParsedChunk(Utf8Decode(Subarray(imageBuffer, offset, offset + 4)),
                Subarray(imageBuffer, offset + 8, offset + 8 + chunkSize))
    \o ParseWebPChunks(imageBuffer, NextWebPOffset(offset, chunkSize))
ParseWebPChunks(imageBuffer, offset) ==
    IF ~(offset < Len(imageBuffer) - 8) THEN <<>>
    ELSE ParseWebPChunkAt(imageBuffer, offset, ReadUInt32LE(imageBuffer, offset + 4))

\* The position the new chunk is spliced in at: behind the first chunk of
\* type 'VP8 ', 'VP8L' or 'VP8X', else 0.
FirstOrZero(hits) == IF hits = {} THEN 0 ELSE Least(hits)
\* The loop without its break: behind the last such chunk.
InsertIndexNoBreak(chunks) ==
    LET hits == {i \in 1..Len(chunks) : chunks[i].type \in {T_VP8, T_VP8L, T_VP8X}}
    IN  IF hits = {} THEN 0 ELSE CHOOSE i \in hits : \A j \in hits : j <= i
InsertIndex(chunks) ==
    FirstOrZero({i \in 1..Len(chunks) : chunks[i].type \in {T_VP8, T_VP8L, T_VP8X}})

\* A chunk rebuilt without the pad byte.
WebPChunkBytesUnpadded(chunk) ==
    WriteTypeField(chunk.type) \o U32LE(Len(chunk.data)) \o chunk.data
\* One chunk of the rebuilt file: header, data and the pad byte of odd data.
WebPChunkBytes(chunk) ==
    WriteTypeField(chunk.type) \o U32LE(Len(chunk.data)) \o chunk.data
    \o (IF Len(chunk.data) % 2 = 1 THEN << 0 >> ELSE <<>>)
\* totalSize: 4 for "WEBP", then 8 + data length (+ 1 when odd) per chunk.
RECURSIVE WebPTotalSize(_)
WebPTotalSize(chunks) ==
    IF chunks = <<>> THEN 4
    ELSE WebPTotalSize(SubSeq(chunks, 1, Len(chunks) - 1))
         + 8 + Len(chunks[Len(chunks)].data) + (Len(chunks[Len(chunks)].data) % 2)

\* writeWebPMetadata(imageBuffer, metadata): [threw, buffer].
\* The RIFF header with totalSize, then the chunks.
WebPRebuilt(chunks) ==
    T_RIFF \o U32LE(WebPTotalSize(chunks)) \o T_WEBP
    \o Concat([i \in 1..Len(chunks) |-> WebPChunkBytes(chunks[i])])
\* chunks.splice(insertIndex, 0, { type: "EXIF", data: exifData })
WebPSpliced(chunks, insertIndex, exifChunk) ==
    SubSeq(chunks, 1, insertIndex) \o << exifChunk >>
    \o SubSeq(chunks, insertIndex + 1, Len(chunks))
WebPWithExif(chunks, exifData) ==
    IF exifData.threw THEN [threw |-> TRUE, buffer |-> <<>>]
    ELSE [threw |-> FALSE,
          buffer |-> WebPRebuilt(WebPSpliced(chunks, InsertIndex(chunks),
                                             [type |-> T_EXIF, data |-> exifData.buffer]))]
writeWebPMetadata(imageBuffer, metadata) ==
    WebPWithExif(ParseWebPChunks(imageBuffer, 12), createExifChunk(metadata))

----------------------------------------------------------------------------
(* Metadata facade *)

NoBuffer == Undefined
NoError == Undefined
BufferValue(bytes) == [t |-> "buffer", bytes |-> bytes]
\* error.message of a RangeError raised by a read past the end of the buffer.
OutOfRangeMessage == "The value of \"offset\" is out of range."

\* { success: true, buffer } or { success: false, error }; `invoked` names the
\* format writers that were called, `raised` tells whether the call rejected
\* instead of returning.
ErrorMessage(parts) == [t |-> "message", parts |-> parts]
Refused(message) ==
    [raised |-> FALSE, success |-> FALSE, buffer |-> NoBuffer,
     error |-> ErrorMessage(message), invoked |-> {}]
\* A switch without the try / catch around it: the writer's exception leaves
\* the call.
WriteOutcomeUncaught(written, message, writer) ==
    IF written.threw
    THEN [raised |-> TRUE, success |-> FALSE, buffer |-> NoBuffer, error |-> NoError,
          invoked |-> {writer}]
    ELSE [raised |-> FALSE, success |-> TRUE, buffer |-> BufferValue(written.buffer),
          error |-> NoError, invoked |-> {writer}]
WriteOutcome(written, message, writer) ==
    IF written.threw
    THEN [raised |-> FALSE, success |-> FALSE, buffer |-> NoBuffer,
          error |-> ErrorMessage(<< message >>), invoked |-> {writer}]
    ELSE [raised |-> FALSE, success |-> TRUE, buffer |-> BufferValue(written.buffer),
          error |-> NoError, invoked |-> {writer}]

\* writeMetadataUniversal(imageBuffer, metadata, mimeType); now1 and now2 are
\* the clock readings a PNG write makes.
ExifOutcome(exifBuffer) == WriteOutcome(exifBuffer, exifBuffer.message, "writeExifMetadata")
WriteWith(imageBuffer, metadata, mimeType, now1, now2, support) ==
    IF Falsy(support.canWriteMetadata)
    THEN Refused(<< "Writing metadata not supported for ", mimeType, ". ", support.notes >>)
    ELSE CASE support.method = "exif" ->
                ExifOutcome(writeExifMetadata(imageBuffer, metadata))
           [] support.method = "riff" ->
                WriteOutcome(writeWebPMetadata(imageBuffer, metadata),
                             "'pack' error. Got invalid type argument.", "writeWebPMetadata")
           [] support.method = "custom" ->
                WriteOutcome(writePNGMetadata(imageBuffer, metadata, now1, now2),
                             OutOfRangeMessage, "writePNGMetadata")
           [] OTHER ->
                Refused(<< "Unsupported metadata method" >>)
writeMetadataUniversal(imageBuffer, metadata, mimeType, now1, now2) ==
    WriteWith(imageBuffer, metadata, mimeType, now1, now2, getFormatSupport(mimeType))

\* readMetadataUniversal(imageBuffer, mimeType): [raised, value, invoked], where
\* `invoked` names the format readers that were called.  The switch is inside
\* a try / catch that returns {}.
ReadOutcome(outcome, readers) ==
    [raised |-> outcome.threw, value |-> outcome.value, invoked |-> readers]
ReadSwitch(imageBuffer, method) ==
    CASE method = "exif" ->
           ReadOutcome(CatchAll(readExifMetadata(imageBuffer)), {"readExifMetadata"})
      [] method = "riff" ->
           ReadOutcome(CatchAll(readWebPMetadata(imageBuffer)), {"readWebPMetadata"})
      [] method = "custom" ->
           ReadOutcome(CatchAll(readPNGMetadata(imageBuffer)), {"readPNGMetadata"})
      [] OTHER -> ReadOutcome(CatchAll(Returned(EmptyMetadata)), {})
ReadWith(imageBuffer, support) ==
    IF Falsy(support.canReadMetadata)
    THEN [raised |-> FALSE, value |-> EmptyMetadata, invoked |-> {}]
    ELSE ReadSwitch(imageBuffer, support.method)
readMetadataUniversal(imageBuffer, mimeType) ==
    ReadWith(imageBuffer, getFormatSupport(mimeType))

----------------------------------------------------------------------------
(* Images and metadata the calls are made with *)

\* The longest image payload (IDAT data, VP8 bitstream) of an input file.
MaxPayload == 2
\* The number of writes in one run.
MaxWrites == 2

Payload(n) == [i \in 1..n |-> 16 + i]

\* A PNG chunk with its length and the CRC of type and data.
PngChunk(type, data) == U32BE(Len(data)) \o type \o data \o calculateCRC32(type \o data)
PngFile(chunks) == PngSignature \o Concat(chunks)
T_IDAT == << 73, 68, 65, 84 >>
T_IEND == << 73, 69, 78, 68 >>
IhdrChunk == PngChunk(T_IHDR, << 0, 0, 0, 1, 0, 0, 0, 1, 8, 0, 0, 0, 0 >>)
IdatChunk(n) == PngChunk(T_IDAT, Payload(n))
IendChunk == PngChunk(T_IEND, <<>>)
\* A chunk whose stored CRC is not the CRC of its type and data.
BadCrcChunk(type, data) == U32BE(Len(data)) \o type \o data \o << 0, 0, 0, 0 >>

PlainPng(n) == PngFile(<< IhdrChunk, IdatChunk(n), IendChunk >>)
\* A PNG that already carries text chunks, one of them not a metadata keyword.
TextPng ==
    PngFile(<< IhdrChunk,
               PngChunk(T_tEXt, << 84, 105, 116, 108, 101 >> \o << 0 >> \o << 111, 108, 100 >>),
               PngChunk(T_tEXt, << 65, 117, 116, 104, 111, 114 >> \o << 0 >> \o << 109, 101 >>),
               IdatChunk(1), IendChunk >>)
\* A tEXt chunk of a keyword and a text.
TextChunk(keyword, text) == PngChunk(T_tEXt, keyword \o << 0 >> \o text)
\* A PNG with text chunks left by another tool: Caption "one", tags "a" and
\* Title "two".
StalePng ==
    PngFile(<< IhdrChunk,
               TextChunk(<< 67, 97, 112, 116, 105, 111, 110 >>, << 111, 110, 101 >>),
               TextChunk(<< 116, 97, 103, 115 >>, << 97 >>),
               TextChunk(<< 84, 105, 116, 108, 101 >>, << 116, 119, 111 >>),
               IdatChunk(1), IendChunk >>)
\* A PNG whose only text chunk is Location "lat=1.5;lon=2.5".
LocationPng ==
    PngFile(<< IhdrChunk, TextChunk(K_Location, << 108, 97, 116, 61, 49, 46, 53, 59, 108, 111, 110, 61, 50, 46, 53 >>), IdatChunk(1), IendChunk >>)
BadCrcPng == PngFile(<< IhdrChunk, BadCrcChunk(T_IDAT, Payload(2)), IendChunk >>)
NoIhdrPng == PngFile(<< IdatChunk(1), IendChunk >>)
\* A PNG with two text chunks that lack a separator, ahead of a sound one: a
\* tEXt chunk "Keywordsab" without NUL, an iTXt chunk "Comment", NUL, the two
\* compression bytes and "en" without the NUL of the language tag, and a tEXt
\* chunk Description "pier".
MalformedPng ==
    PngFile(<< IhdrChunk,
               PngChunk(T_tEXt, << 75, 101, 121, 119, 111, 114, 100, 115, 97, 98 >>),
               PngChunk(T_iTXt, << 67, 111, 109, 109, 101, 110, 116 >> \o << 0, 0, 0 >> \o << 101, 110 >>),
               TextChunk(K_Description, << 112, 105, 101, 114 >>),
               IdatChunk(1), IendChunk >>)
\* A PNG with a second IHDR chunk.
TwoIhdrPng == PngFile(<< IhdrChunk, IhdrChunk, IdatChunk(1), IendChunk >>)
\* PNGs cut short inside a chunk, so that its declared length exceeds the
\* bytes that remain: inside a Description text chunk, and inside IDAT.
DescriptionChunk == PngChunk(T_tEXt, << 68, 101, 115, 99, 114, 105, 112, 116, 105, 111, 110 >> \o << 0 >> \o << 115, 101, 97, 115, 105, 100, 101 >>)
TruncatedTextPng ==
    LET whole == PngFile(<< IhdrChunk, DescriptionChunk >>)
    IN  SubSeq(whole, 1, Len(whole) - 8)
TruncatedIdatPng ==
    LET whole == PngFile(<< IhdrChunk, PngChunk(T_IDAT, Payload(12)) >>)
    IN  SubSeq(whole, 1, Len(whole) - 6)

\* A WebP file: the RIFF header with the size of what follows, and the chunks.
WebPChunk(type, data) ==
    type \o U32LE(Len(data)) \o data \o (IF Len(data) % 2 = 1 THEN << 0 >> ELSE <<>>)
WebPFile(chunks) ==
    T_RIFF \o U32LE(4 + Len(Concat(chunks))) \o T_WEBP \o Concat(chunks)
Vp8xChunk == WebPChunk(T_VP8X, << 8, 0, 0, 0, 0, 0, 0, 0, 0, 0 >>)
OldExifChunk ==
    WebPChunk(T_EXIF, PiexifDump([EmptyExif EXCEPT !.ImageDescription = Str(<< 111, 108, 100 >>)]).bytes)
ExtendedWebP(n) == WebPFile(<< Vp8xChunk, WebPChunk(T_VP8, Payload(n)) >>)
SimpleWebP(n) == WebPFile(<< WebPChunk(T_VP8, Payload(n)) >>)
LosslessWebP == WebPFile(<< WebPChunk(T_VP8L, Payload(2)) >>)
ExifWebP == WebPFile(<< Vp8xChunk, WebPChunk(T_VP8, Payload(2)), OldExifChunk >>)
ExifFirstWebP == WebPFile(<< Vp8xChunk, OldExifChunk, WebPChunk(T_VP8, Payload(1)) >>)
\* A file whose last chunk, 'XMP ', has no data.
T_XMP == << 88, 77, 80, 32 >>
EmptyLastWebP == WebPFile(<< WebPChunk(T_VP8, Payload(1)), WebPChunk(T_XMP, <<>>) >>)
\* An EXIF chunk the library cannot load, and a file cut short inside its
\* last chunk.
BadExifWebP == WebPFile(<< WebPChunk(T_VP8, Payload(2)), WebPChunk(T_EXIF, << 1, 2, 3, 4 >>) >>)
TruncatedWebP ==
    LET whole == WebPFile(<< Vp8xChunk, WebPChunk(T_VP8, Payload(12)) >>)
    IN  SubSeq(whole, 1, Len(whole) - 9)

\* A JPEG: SOI, a quantization-table segment, the scan and EOI.
PlainJpeg(n) ==
    JpegSOI \o << 255, 219, 0, 4, 1, 2 >> \o JpegSOS \o << 0, 2 >> \o Payload(n) \o << 255, 217 >>
\* The same with an EXIF block from a camera.
CameraJpeg ==
    PiexifInsert(PiexifDump([EmptyExif EXCEPT !.Make = Str(<< 67, 97, 109 >>),
                                              !.DateTime = Str(<< 50, 48, 50, 48 >>)]).bytes,
                 PlainJpeg(1)).bytes
TiffFile == TiffHeader \o << 0, 0, 0, 0 >>
Garbage == << 71, 73, 70, 56, 57, 97, 1, 0, 1, 0, 200, 0, 0, 1, 2, 3 >>
\* A buffer shorter than the header of either container: the bytes 'RIFF'.
ShortBuffer == T_RIFF

Files ==
    {[buffer |-> PlainPng(n), mimeType |-> "image/png"] : n \in 0..MaxPayload}
    \cup {[buffer |-> b, mimeType |-> "image/png"] :
             b \in {TextPng, StalePng, LocationPng, BadCrcPng, NoIhdrPng, TwoIhdrPng,
                    MalformedPng,
                    TruncatedTextPng, TruncatedIdatPng, Garbage}}
    \cup {[buffer |-> ExtendedWebP(n), mimeType |-> "image/webp"] : n \in 0..MaxPayload}
    \cup {[buffer |-> SimpleWebP(n), mimeType |-> "image/webp"] : n \in 1..MaxPayload}
    \cup {[buffer |-> b, mimeType |-> "image/webp"] :
             b \in {LosslessWebP, ExifWebP, ExifFirstWebP, EmptyLastWebP, BadExifWebP,
                    TruncatedWebP, Garbage}}
    \cup {[buffer |-> PlainJpeg(n), mimeType |-> "image/jpeg"] : n \in 1..MaxPayload}
    \cup {[buffer |-> b, mimeType |-> "image/jpeg"] : b \in {CameraJpeg, Garbage}}
    \cup {[buffer |-> PlainJpeg(1), mimeType |-> m] :
             m \in {"image/jpg", "image/heic", "image/heif", "image/gif", "constructor"}}
    \cup {[buffer |-> TiffFile, mimeType |-> "image/tiff"],
          [buffer |-> PlainPng(1), mimeType |-> "image/webp"],
          [buffer |-> ShortBuffer, mimeType |-> "image/webp"],
          [buffer |-> ShortBuffer, mimeType |-> "image/png"]}

\* Coordinates in ten-thousandths of a degree, in range.
Coordinates ==
    {<< 377749, -1224194 >>, << -338688, 1512093 >>, << 0, -1224194 >>,
     << 515000, 0 >>, << -900000, 1800000 >>, << 900000, -1800000 >>}
Degrees(n) == Num(n, 10000)
GpsOnly(c) == [EmptyMetadata EXCEPT !.gps = Gps(Degrees(c[1]), Degrees(c[2]))]
Metadatas ==
    {GpsOnly(c) : c \in Coordinates}
    \cup {[GpsOnly(<< 377749, -1224194 >>) EXCEPT
              !.description = Str(<< 67, 97, 102, 233, 32 >>), !.keywords = Str(<< 115, 101, 97, 44, 115, 117, 110 >>)],
          [GpsOnly(<< -338688, 1512093 >>) EXCEPT
              !.description = Str(<< 112, 105, 101, 114 >>), !.keywords = Str(<< 115, 117, 110 >>)],
          [EmptyMetadata EXCEPT !.keywords = Str(<< 115, 117, 110 >>)],
          EmptyMetadata}
    \cup {[EmptyMetadata EXCEPT !.gps = Gps(Degrees(377749), Undefined)],
          [EmptyMetadata EXCEPT !.gps = Gps(Undefined, Degrees(-1224194)),
                                !.description = Str(<< 112, 105, 101, 114 >>)]}

\* new Date().toISOString() at reading c of the clock.
Now(c) == << 50, 48, 50, 53, 45, 48, 49, 45, 48, 49, 84, 48, 48, 58, 48, 48, 58, 48 >> \o Digits(c) \o << 46, 48, 48, 48, 90 >>

----------------------------------------------------------------------------
(* The calls made on one image *)

VARIABLES
    imageBuffer,    \* the buffer the calls are given
    mimeType,       \* its MIME type
    metadata,       \* the MetadataInfo to write
    clock,          \* readings of the clock so far: one per write
    generation,     \* how many times an output has been taken as the next input
    op,             \* the last call: "none", "write", "readInput", "readOutput"
    writeResult,    \* what the last writeMetadataUniversal returned
    readResult,     \* what the last readMetadataUniversal returned
    crcInput,       \* the keyword and bytes the CRC functions are called with
    crcOutput,      \* what calculateCRC32 or createPNGTextChunk returned
    tmpFiles,       \* the files of /tmp, where uploads are stored
    tempFiles,      \* the entries of <cwd>/temp, or NoDirectory
    request,        \* the last HTTP request
    response        \* what its handler did: responses sent, writer calls

codecVars == << imageBuffer, mimeType, metadata, clock, generation, op, writeResult, readResult >>
crcVars == << crcInput, crcOutput >>
handlerVars == << tmpFiles, tempFiles, request, response >>
vars == << codecVars, crcVars, handlerVars >>

NoResult == [t |-> "none"]
\* The variables of the calls that a specification does not make.
NoCodecCalls ==
    /\ imageBuffer = <<>> /\ mimeType = "" /\ metadata = NoResult /\ clock = 0
    /\ generation = 0 /\ op = "none" /\ writeResult = NoResult /\ readResult = NoResult
NoCrcCalls == crcInput = NoResult /\ crcOutput = NoResult
NoRequests ==
    /\ tmpFiles = {} /\ tempFiles = NoResult /\ request = NoResult /\ response = NoResult

Init ==
    /\ \E f \in Files : imageBuffer = f.buffer /\ mimeType = f.mimeType
    /\ metadata \in Metadatas
    /\ clock = 0
    /\ generation = 0
    /\ op = "none"
    /\ writeResult = NoResult
    /\ readResult = NoResult
    /\ NoCrcCalls
    /\ NoRequests

\* A call of writeMetadataUniversal on the image; the two clock readings of a
\* PNG write are equal or one tick apart.
WriteMetadata ==
    /\ clock < MaxWrites
    /\ \E tick \in {0, 1} :
          writeResult' = writeMetadataUniversal(imageBuffer, metadata, mimeType,
                                                Now(clock), Now(clock + tick))
    /\ clock' = clock + 1
    /\ op' = "write"
    /\ readResult' = NoResult
    /\ UNCHANGED << imageBuffer, mimeType, metadata, generation, crcVars, handlerVars >>

\* The caller takes the buffer a successful write returned as the image of its
\* next calls (a second write on the output of the first).
TakeOutput ==
    /\ op = "write"
    /\ writeResult.success
    /\ imageBuffer' = writeResult.buffer.bytes
    /\ generation' = generation + 1
    /\ op' = "none"
    /\ writeResult' = NoResult
    /\ readResult' = NoResult
    /\ UNCHANGED << mimeType, metadata, clock, crcVars, handlerVars >>

\* A call of readMetadataUniversal on the image.
ReadMetadata ==
    /\ op \in {"none", "write"}
    /\ readResult' = readMetadataUniversal(imageBuffer, mimeType)
    /\ op' = "readInput"
    /\ UNCHANGED << imageBuffer, mimeType, metadata, clock, generation, writeResult,
                    crcVars, handlerVars >>

\* A call of readMetadataUniversal on the buffer the last write returned.
ReadWritten ==
    /\ op = "write"
    /\ writeResult.success
    /\ readResult' = readMetadataUniversal(writeResult.buffer.bytes, mimeType)
    /\ op' = "readOutput"
    /\ UNCHANGED << imageBuffer, mimeType, metadata, clock, generation, writeResult,
                    crcVars, handlerVars >>

Next == WriteMetadata \/ TakeOutput \/ ReadMetadata \/ ReadWritten

Spec == Init /\ [][Next]_vars

----------------------------------------------------------------------------
(* The calls of calculateCRC32 and createPNGTextChunk on byte sequences *)

\* The longest byte sequence of the calls.
MaxCrcLen == 3
CrcBytes == {0, 1, 49, 128, 255}
RECURSIVE ByteStrings(_)
ByteStrings(n) ==
    IF n = 0 THEN {<<>>}
    ELSE LET shorter == ByteStrings(n - 1)
         IN  shorter \cup {Append(b, c) : b \in {x \in shorter : Len(x) = n - 1}, c \in CrcBytes}
\* "123456789", the sequence check values of CRC algorithms are quoted for.
CheckString == << 49, 50, 51, 52, 53, 54, 55, 56, 57 >>
CrcInputs == ByteStrings(MaxCrcLen) \cup {CheckString, T_IEND}
\* "Title" and a keyword with a non-ASCII character.
CrcKeywords == {K_Title, << 84, 233 >>}

CrcInit ==
    /\ \E keyword \in CrcKeywords, bytes \in CrcInputs :
          crcInput = [keyword |-> keyword, bytes |-> bytes]
    /\ crcOutput = NoResult
    /\ NoCodecCalls
    /\ NoRequests

\* calculateCRC32(Buffer.from(bytes))
CalculateCrc ==
    /\ crcOutput' = [t |-> "crc", value |-> calculateCRC32(crcInput.bytes)]
    /\ UNCHANGED << crcInput, codecVars, handlerVars >>

\* createPNGTextChunk(keyword, text), the text being the bytes as characters.
CreateTextChunk ==
    /\ crcOutput' = [t |-> "chunk",
                     value |-> createPNGTextChunk(crcInput.keyword, crcInput.bytes)]
    /\ UNCHANGED << crcInput, codecVars, handlerVars >>

CrcNext == CalculateCrc \/ CreateTextChunk

CrcSpec == CrcInit /\ [][CrcNext]_vars

----------------------------------------------------------------------------
(* The request handlers: pages/api/upload.ts, write.ts and clear.ts *)

\* The identifiers uuidv4 gives: none is a prefix of another.
Uuids == {<< 49, 97 >>, << 50, 98 >>}

\* <cwd>/temp when it does not exist.
NoDirectory == [t |-> "absent"]
Directory(entries) == [t |-> "dir", entries |-> entries]
\* A file of /tmp: its name, its bytes, and whether its mtime is more than 30
\* minutes back.
StoredFile(name, bytes) == [name |-> name, bytes |-> bytes, old |-> FALSE]

\* String.startsWith
StartsWith(s, prefix) == Len(prefix) <= Len(s) /\ SubSeq(s, 1, Len(prefix)) = prefix
\* name.split(".").pop()?.toLowerCase() || fallback
ExtensionOr(name, fallback) ==
    LET parts == Split(name, 46)
        last == ToLowerCase(parts[Len(parts)])
    IN  IF last = <<>> THEN fallback ELSE last
E_jpg == << 106, 112, 103 >>
E_jpeg == << 106, 112, 101, 103 >>
E_png == << 112, 110, 103 >>
E_webp == << 119, 101, 98, 112 >>
E_tiff == << 116, 105, 102, 102 >>
E_tif == << 116, 105, 102 >>
E_heic == << 104, 101, 105, 99 >>
E_heif == << 104, 101, 105, 102 >>
\* getMimeType(extension): mimeTypes[extension] || "image/jpeg"
getMimeType(extension) ==
    CASE extension \in {E_jpg, E_jpeg} -> "image/jpeg"
      [] extension = E_png -> "image/png"
      [] extension = E_webp -> "image/webp"
      [] extension \in {E_tiff, E_tif} -> "image/tiff"
      [] extension = E_heic -> "image/heic"
      [] extension = E_heif -> "image/heif"
      [] OTHER -> "image/jpeg"

\* getMimeTypeFromExtension(extension) of upload.ts: the same table.
getMimeTypeFromExtension(extension) ==
    CASE extension \in {E_jpg, E_jpeg} -> "image/jpeg"
      [] extension = E_png -> "image/png"
      [] extension = E_webp -> "image/webp"
      [] extension \in {E_tiff, E_tif} -> "image/tiff"
      [] extension = E_heic -> "image/heic"
      [] extension = E_heif -> "image/heif"
      [] OTHER -> "image/jpeg"

\* What a handler did: the responses it sent, in order, and the calls of
\* writeMetadataUniversal it made (their meta argument).
JsonBody(status, error) ==
    [status |-> status, kind |-> "json", error |-> error, image |-> <<>>, detail |-> NoResult]
ImageBody(bytes, detail) ==
    [status |-> 200, kind |-> "image", error |-> "", image |-> bytes, detail |-> detail]
Handled(sent, calls) == [sent |-> sent, writerCalls |-> calls]
Rejected(status, error) == Handled(<< JsonBody(status, error) >>, <<>>)

\* The verification of write.ts: the output read back, for PNG and WebP.
GpsMatch(read, written) ==
    /\ Truthy(read)
    /\ IsNum(read.lat) /\ IsNum(read.lon)
    /\ NumLt(NumAbs(NumSub(read.lat, written.lat)), Num(1, 1000000))
    /\ NumLt(NumAbs(NumSub(read.lon, written.lon)), Num(1, 1000000))
VerificationOf(verified, meta) ==
    [gpsWritten |-> Truthy(verified.gps) /\ Truthy(verified.gps.lat) /\ Truthy(verified.gps.lon),
     keywordsWritten |-> Truthy(verified.keywords),
     descriptionWritten |-> Truthy(verified.description),
     gpsMatch |-> GpsMatch(verified.gps, meta.gps),
     keywordsMatch |-> verified.keywords = meta.keywords,
     descriptionMatch |-> verified.description = meta.description]
Verification(bytes, mime, meta) ==
    IF mime \in {"image/png", "image/webp"}
    THEN VerificationOf(readMetadataUniversal(bytes, mime).value, meta)
    ELSE NoResult

\* keywords?.trim() || undefined
TrimmedOrUndefined(v) ==
    IF v.t = "str" /\ Trim(v.s) # <<>> THEN Str(Trim(v.s)) ELSE Undefined

\* write.ts from the call of writeMetadataUniversal on: 500 with the error
\* when the write failed, else the verification and the image.
WriteSent(result, mime, meta) ==
    IF ~result.success
    THEN Handled(<< JsonBody(500, "Failed to write meta") >>, << meta >>)
    ELSE Handled(<< ImageBody(result.buffer.bytes,
                              Verification(result.buffer.bytes, mime, meta)) >>,
                 << meta >>)
WriteToFile(file, mime, meta, now) ==
    WriteSent(writeMetadataUniversal(file.bytes, meta, mime, now, now),
              mime, meta)
\* From the format support check on.
WriteSupported(file, mime, formatSupport, meta, now) ==
    IF Falsy(formatSupport.canWriteMetadata) \/ Falsy(formatSupport.canWriteGPS)
    THEN Rejected(400, "GPS meta writing not supported")
    ELSE WriteToFile(file, mime, meta, now)
WriteTyped(file, mime, meta, now) ==
    WriteSupported(file, mime, getFormatSupport(mime), meta, now)
\* From the lookup of the image file on; `found` is what files.find returned:
\* a file whose name starts with the id, or NoResult.
WriteFound(found, meta, now) ==
    IF found = NoResult THEN Rejected(404, "Image not found")
    ELSE WriteTyped(found, getMimeType(ExtensionOr(found.name, <<>>)), meta, now)
\* From Number(lat), Number(lon) on.
WriteValidated(body, latitude, longitude, found, now) ==
    IF ~IsNum(latitude) \/ ~IsNum(longitude)
    THEN Rejected(400, "Invalid latitude or longitude values")
    ELSE IF NumLt(latitude, IntNum(-90)) \/ NumLt(IntNum(90), latitude)
    THEN Rejected(400, "Latitude must be between -90 and 90")
    ELSE IF NumLt(longitude, IntNum(-180)) \/ NumLt(IntNum(180), longitude)
    THEN Rejected(400, "Longitude must be between -180 and 180")
    ELSE WriteFound(found,
                    [EmptyMetadata EXCEPT !.gps = Gps(latitude, longitude),
                                          !.keywords = TrimmedOrUndefined(body.keywords),
                                          !.description = TrimmedOrUndefined(body.description)],
                    now)
\* The body of the try block; destructuring the body of a request whose JSON
\* text is null is a TypeError, which the catch block answers with 500.
WriteBody(body, found, now) ==
    IF body = Null THEN Rejected(500, "Cannot destructure property 'id'")
    ELSE IF Falsy(body.id) THEN Rejected(400, "Image ID is required")
    ELSE IF body.lat = Undefined \/ body.lon = Undefined
    THEN Rejected(400, "Latitude and longitude are required")
    ELSE WriteValidated(body, JsToNumber(body.lat), JsToNumber(body.lon), found, now)
\* handler(req, res) of write.ts.
writeHandler(req, found, now) ==
    IF req.method # "POST" THEN Rejected(405, "Method not allowed")
    ELSE WriteBody(req.body, found, now)
\* files.find((file) => file.startsWith(id)): one of the files whose name
\* starts with the id (readdir gives no order), or nothing.
FilesFor(files, body) ==
    LET hits == IF body = Null \/ body.id.t # "str" THEN {}
                ELSE {f \in files : StartsWith(f.name, body.id.s)}
    IN  IF hits = {} THEN {NoResult} ELSE hits

\* cleanupOldFiles(tempDir): the files older than 30 minutes are unlinked.
cleanupOldFiles(files) == {f \in files : ~f.old}
\* One entry of the images array of upload.ts.
ImageData(id, mime, formatSupport, read) ==
    [id |-> id, type |-> mime,
     canWriteGPS |-> formatSupport.canWriteGPS,
     canWriteMetadata |-> formatSupport.canWriteMetadata,
     lat |-> IF Truthy(read.gps) THEN read.gps.lat ELSE Undefined,
     lon |-> IF Truthy(read.gps) THEN read.gps.lon ELSE Undefined,
     keywords |-> read.keywords, description |-> read.description]
UploadedImage(id, file, mime, formatSupport) ==
    ImageData(id, mime, formatSupport,
              IF Truthy(formatSupport.canReadMetadata)
              THEN readMetadataUniversal(file.bytes, mime).value
              ELSE EmptyMetadata)
UploadTyped(id, file, mime) ==
    UploadedImage(id, file, mime, getFormatSupport(mime))
\* handler(req, res) of upload.ts: [files, handled], the files of /tmp after
\* the request and what was answered.  `id` is what uuidv4 returns.
UploadStored(kept, id, file, extension) ==
    [files |-> kept \cup {StoredFile(id \o << 46 >> \o extension, file.bytes)},
     handled |-> Handled(<< [status |-> 200, kind |-> "json", error |-> "", image |-> <<>>,
                             detail |-> UploadTyped(id, file,
                                                    IF file.mimetype # ""
                                                    THEN file.mimetype
                                                    ELSE getMimeTypeFromExtension(extension))] >>,
                         <<>>)]
uploadHandler(req, files, id) ==
    IF req.method # "POST"
    THEN [files |-> files, handled |-> Rejected(405, "Method not allowed")]
    ELSE IF req.images = <<>>
    THEN [files |-> cleanupOldFiles(files), handled |-> Rejected(400, "No images uploaded")]
    ELSE UploadStored(cleanupOldFiles(files), id, req.images[1],
                      ExtensionOr(req.images[1].originalFilename, E_jpg))

\* handler(req, res) of clear.ts on <cwd>/temp: [entries, handled].  An entry
\* is a file, a directory, or a file whose unlink fails.
ClearEntries(entries) ==
    LET failed == {e \in entries : e.kind = "locked"}
    IN  [entries |-> Directory({e \in entries : e.kind # "file"}),
         handled |-> IF failed # {} THEN Rejected(207, "Cleared with errors")
                     ELSE Rejected(200, "Successfully cleared")]
clearHandler(req, directory) ==
    IF req.method # "POST"
    THEN [entries |-> directory, handled |-> Rejected(405, "Method not allowed")]
    ELSE IF directory = NoDirectory \/ directory.entries = {}
    THEN [entries |-> directory, handled |-> Rejected(200, "No files to clear")]
    ELSE ClearEntries(directory.entries)

\* The requests.
Methods == {"POST", "GET"}
FormFile(originalFilename, mimetype, bytes) ==
    [originalFilename |-> originalFilename, mimetype |-> mimetype, bytes |-> bytes]
FormFiles ==
    {FormFile(<< 97, 46, 112, 110, 103 >>, "image/png", PlainPng(1)),
     FormFile(<< 99, 46, 72, 69, 73, 67 >>, "", PlainJpeg(1))}
UploadRequests ==
    {[handler |-> "upload", method |-> "GET", images |-> <<>>]}
    \cup {[handler |-> "upload", method |-> "POST", images |-> i] :
            i \in {<<>>} \cup {<< f >> : f \in FormFiles}}
WriteBodies ==
    {Null}
    \cup {[id |-> id, lat |-> lat, lon |-> lon, keywords |-> words, description |-> Undefined] :
            id \in {Undefined} \cup {Str(u) : u \in Uuids},
            lat \in {Undefined, Null, Str(<< 110, 111, 114, 116, 104 >>), Str(<< 49, 50, 46, 53 >>),
                     Degrees(377749), IntNum(91)},
            lon \in {Undefined, Degrees(-1224194), IntNum(-181)},
            words \in {Str(<< 32, 115, 117, 110, 32 >>)}}
WriteRequests ==
    {[handler |-> "write", method |-> "GET", body |-> Null]}
    \cup {[handler |-> "write", method |-> "POST", body |-> b] : b \in WriteBodies}
ClearRequests == {[handler |-> "clear", method |-> m] : m \in Methods}
TempEntry(name, kind) == [name |-> name, kind |-> kind]
TempDirectories ==
    {NoDirectory,
     Directory({TempEntry(<< 120, 46, 112, 110, 103 >>, "file"), TempEntry(<< 115, 117, 98 >>, "dir")}),
     Directory({TempEntry(<< 120, 46, 112, 110, 103 >>, "file"),
                TempEntry(<< 121, 46, 112, 110, 103 >>, "locked")})}

HandlerInit ==
    /\ tmpFiles = {}
    /\ tempFiles \in TempDirectories
    /\ request = NoResult
    /\ response = NoResult
    /\ NoCodecCalls
    /\ NoCrcCalls

\* POST /api/upload
UploadRequest ==
    /\ \E req \in UploadRequests, id \in Uuids :
          /\ \A f \in tmpFiles : ~StartsWith(f.name, id)
          /\ request' = req
          /\ tmpFiles' = uploadHandler(req, tmpFiles, id).files
          /\ response' = uploadHandler(req, tmpFiles, id).handled
    /\ UNCHANGED << tempFiles, codecVars, crcVars >>

\* POST /api/write
WriteRequest ==
    /\ \E req \in WriteRequests :
          \E found \in FilesFor(tmpFiles, req.body) :
             /\ request' = req
             /\ response' = writeHandler(req, found, Now(0))
    /\ UNCHANGED << tmpFiles, tempFiles, codecVars, crcVars >>

\* POST /api/clear
ClearRequest ==
    /\ \E req \in ClearRequests :
          /\ request' = req
          /\ tempFiles' = clearHandler(req, tempFiles).entries
          /\ response' = clearHandler(req, tempFiles).handled
    /\ UNCHANGED << tmpFiles, codecVars, crcVars >>

\* Thirty minutes pass: the files of /tmp are old.
Tick ==
    /\ \E f \in tmpFiles : ~f.old
    /\ tmpFiles' = {[f EXCEPT !.old = TRUE] : f \in tmpFiles}
    /\ UNCHANGED << tempFiles, request, response, codecVars, crcVars >>

HandlerNext == UploadRequest \/ WriteRequest \/ ClearRequest \/ Tick

HandlerSpec == HandlerInit /\ [][HandlerNext]_vars

----------------------------------------------------------------------------
(* Container layouts, read independently of the codec *)

\* The chunks of a PNG stream from `offset` on: declared length, type, data
\* and stored CRC; `whole` tells whether the declared bytes are all there.
RECURSIVE PngChunksFrom(_, _)
PngChunksFrom(buf, offset) ==
    IF ~InRange(buf, offset, 8) THEN <<>>
    ELSE LET length == ReadUInt32BE(buf, offset)
             chunk == [length |-> length,
                       type |-> Subarray(buf, offset + 4, offset + 8),
                       data |-> Subarray(buf, offset + 8, offset + 8 + length),
                       crc |-> Subarray(buf, offset + 8 + length, offset + 12 + length),
                       whole |-> InRange(buf, offset + 8, length + 4)]
         IN  IF chunk.whole THEN << chunk >> \o PngChunksFrom(buf, offset + 12 + length)
             ELSE << chunk >>
PngChunksOf(buf) == PngChunksFrom(buf, Len(PngSignature))
HasPngSignature(buf) == SubSeq(buf, 1, Min(Len(buf), Len(PngSignature))) = PngSignature
\* The chunks tile the stream: each is whole and nothing is left over.
RECURSIVE PngStreamLength(_)
PngStreamLength(chunks) ==
    IF chunks = <<>> THEN 0 ELSE 12 + Head(chunks).length + PngStreamLength(Tail(chunks))
TilesStream(chunks, length) ==
    /\ \A i \in 1..Len(chunks) : chunks[i].whole
    /\ Len(PngSignature) + PngStreamLength(chunks) = length
PngFramed(buf) == HasPngSignature(buf) /\ TilesStream(PngChunksOf(buf), Len(buf))
CrcCorrect(chunk) == chunk.crc = calculateCRC32(chunk.type \o chunk.data)
TypesOf(chunks) == [i \in 1..Len(chunks) |-> chunks[i].type]
PngTypes(buf) == TypesOf(PngChunksOf(buf))
IhdrToIend(chunks) ==
    /\ chunks # <<>>
    /\ Head(chunks).type = T_IHDR
    /\ chunks[Len(chunks)].type = T_IEND
    /\ \A i \in 1..Len(chunks) : CrcCorrect(chunks[i])
WellFormedPng(buf) == PngFramed(buf) /\ IhdrToIend(PngChunksOf(buf))

\* Keyword and text of a text chunk, by the PNG layout: tEXt is keyword, NUL,
\* text; iTXt is keyword, NUL, flag, method, language, NUL, translation, NUL,
\* text.
IsTextChunk(chunk) == chunk.type \in {T_tEXt, T_iTXt}
ChunkKeyword(chunk) == Subarray(chunk.data, 0, Max(IndexOf(chunk.data, 0), 0))
ChunkText(chunk) ==
    LET afterKeyword == IndexOf(chunk.data, 0) + 1
        afterLanguage == IndexOfFrom(chunk.data, 0, afterKeyword + 2) + 1
        afterTranslation == IndexOfFrom(chunk.data, 0, afterLanguage) + 1
    IN  IF chunk.type = T_tEXt THEN SubarrayFrom(chunk.data, afterKeyword)
        ELSE Utf8Decode(SubarrayFrom(chunk.data, afterTranslation))
\* The positions of the text chunks of a stream that carry a keyword.
KeywordChunksIn(chunks, keyword) ==
    {i \in 1..Len(chunks) : IsTextChunk(chunks[i]) /\ ChunkKeyword(chunks[i]) = keyword}
KeywordChunks(buf, keyword) == KeywordChunksIn(PngChunksOf(buf), keyword)
KeywordCount(buf, keyword) == Cardinality(KeywordChunks(buf, keyword))
WrittenKeywords ==
    {K_GPS_Location, K_GPS_Coordinates, K_Location, K_Geolocation, K_Description,
     K_Comment, K_Title, K_Keywords, K_Subject, K_CreationTime, K_Software}

\* The chunks of a RIFF/WebP stream from `offset` on: type, size field, data
\* and pad byte (-1 where there is none); `whole` as above.
RECURSIVE WebPChunksFrom(_, _)
WebPChunksFrom(buf, offset) ==
    IF ~InRange(buf, offset, 8) THEN <<>>
    ELSE LET size == ReadUInt32LE(buf, offset + 4)
             chunk == [type |-> Subarray(buf, offset, offset + 4),
                       size |-> size,
                       data |-> Subarray(buf, offset + 8, offset + 8 + size),
                       pad |-> IF size % 2 = 1 /\ InRange(buf, offset + 8 + size, 1)
                               THEN At(buf, offset + 8 + size) ELSE -1,
                       whole |-> InRange(buf, offset + 8, size + (size % 2))]
         IN  IF chunk.whole
             THEN << chunk >> \o WebPChunksFrom(buf, offset + 8 + size + (size % 2))
             ELSE << chunk >>
WebPChunksOf(buf) == WebPChunksFrom(buf, 12)
WebPTypes(buf) == TypesOf(WebPChunksOf(buf))
RECURSIVE WebPStreamLength(_)
WebPStreamLength(chunks) ==
    IF chunks = <<>> THEN 0
    ELSE 8 + Head(chunks).size + (Head(chunks).size % 2) + WebPStreamLength(Tail(chunks))
HasWebPSignature(buf) ==
    Len(buf) >= 12 /\ SubSeq(buf, 1, 4) = T_RIFF /\ SubSeq(buf, 9, 12) = T_WEBP
TilesRiff(chunks, length) ==
    /\ \A i \in 1..Len(chunks) : chunks[i].whole
    /\ 12 + WebPStreamLength(chunks) = length
    /\ \E i \in 1..Len(chunks) : chunks[i].type \in {T_VP8, T_VP8L}
WellFormedWebP(buf) ==
    /\ HasWebPSignature(buf)
    /\ ReadUInt32LE(buf, 4) = Len(buf) - 8
    /\ TilesRiff(WebPChunksOf(buf), Len(buf))

\* A JPEG: its segments can be walked up to the scan, and it ends with EOI.
WellFormedJpeg(buf) ==
    /\ ~splitIntoSegments(buf).threw
    /\ Len(buf) >= 4 /\ SubSeq(buf, Len(buf) - 1, Len(buf)) = << 255, 217 >>
HasExifSegment(buf) ==
    \E i \in 1..Len(splitIntoSegments(buf).segments) :
        IsExifSegment(splitIntoSegments(buf).segments[i])

WellFormed(buf, mime) ==
    CASE mime = "image/png" -> WellFormedPng(buf)
      [] mime = "image/webp" -> WellFormedWebP(buf)
      [] mime = "image/jpeg" -> WellFormedJpeg(buf)
      [] OTHER -> FALSE

\* |x - y| <= 1e-5
Within(x, y) == NumLeq(NumAbs(NumSub(x, y)), Num(1, 100000))
\* The degrees a stored DMS triple of rationals stands for.
DmsDegrees(triple) ==
    NumAdd(NumAdd(Num(triple.a[1].a[1].n, triple.a[1].a[2].n),
                  NumDivInt(Num(triple.a[2].a[1].n, triple.a[2].a[2].n), 60)),
           NumDivInt(Num(triple.a[3].a[1].n, triple.a[3].a[2].n), 3600))
IsNegative(x) == NumLt(x, IntNum(0))
\* A gps with both of its coordinates.
HasCoordinates(gps) == Truthy(gps) /\ IsNum(gps.lat) /\ IsNum(gps.lon)

----------------------------------------------------------------------------
(* Claims C1 - C10 *)

WritableKinds == {"image/png", "image/webp", "image/jpeg"}
\* The MIME types the capability table lists with canWriteMetadata = true, and
\* those it lists at all.
TableWritable == {"image/jpeg", "image/jpg", "image/tiff", "image/webp", "image/png"}
TableReadable == TableWritable \cup {"image/heic", "image/heif"}

\* A read result holds the written coordinates as numbers, within 1e-5.
ReadsBackGps(result, written) ==
    /\ result.value.gps.t = "gps"
    /\ IsNum(result.value.gps.lat) /\ IsNum(result.value.gps.lon)
    /\ Within(result.value.gps.lat, written.lat)
    /\ Within(result.value.gps.lon, written.lon)

\* C1: after a successful write of a gps to a well-formed PNG, WebP or JPEG,
\* reading the output returns a gps whose lat and lon are numbers within 1e-5
\* degrees of the written ones.
C1_RoundTripGps ==
    (/\ op = "readOutput"
     /\ mimeType \in WritableKinds
     /\ HasCoordinates(metadata.gps)
     /\ WellFormed(imageBuffer, mimeType))
    => ReadsBackGps(readResult, metadata.gps)

\* C1, the failing case: a JPEG written with lat 37.7749, lon -122.4194 reads
\* back the string "37,1NaNNaN" as lat and NaN as lon.
C1_JpegReadsNoNumbers ==
    /\ op = "readOutput"
    /\ mimeType = "image/jpeg"
    /\ imageBuffer = PlainJpeg(1)
    /\ metadata = GpsOnly(<< 377749, -1224194 >>)
    /\ readResult.value.gps = Gps(Str(<< 51, 55, 44, 49, 78, 97, 78, 78, 97, 78 >>), NaN)

\* What writeExifMetadata stored for a gps: references by sign, DMS triples of
\* the absolute values.
StoresHemispheres(exifObj, written) ==
    /\ exifObj.GPSLatitudeRef = (IF IsNegative(written.lat) THEN Str(S_S) ELSE Str(S_N))
    /\ exifObj.GPSLongitudeRef = (IF IsNegative(written.lon) THEN Str(S_W) ELSE Str(S_E))
    /\ Within(DmsDegrees(exifObj.GPSLatitude), NumAbs(written.lat))
    /\ Within(DmsDegrees(exifObj.GPSLongitude), NumAbs(written.lon))
\* A read result has numbers of the same signs as the written coordinates.
ReadsBackSigns(result, written) ==
    /\ result.value.gps.t = "gps"
    /\ IsNum(result.value.gps.lat) /\ IsNum(result.value.gps.lon)
    /\ IsNegative(result.value.gps.lat) = IsNegative(written.lat)
    /\ IsNegative(result.value.gps.lon) = IsNegative(written.lon)

\* C2: for a gps written by writeExifMetadata to a JPEG with no prior EXIF
\* block, GPSLatitudeRef is "S" exactly when lat < 0 (else "N"),
\* GPSLongitudeRef is "W" exactly when lon < 0 (else "E"), the DMS triples
\* encode the absolute values, and readExifMetadata on the output returns lat
\* and lon with the signs of the written ones.
C2_HemisphereSigns ==
    (/\ op = "readOutput"
     /\ mimeType = "image/jpeg"
     /\ HasCoordinates(metadata.gps)
     /\ WellFormedJpeg(imageBuffer) /\ ~HasExifSegment(imageBuffer))
    => /\ StoresHemispheres(PiexifLoad(writeResult.buffer.bytes).exifObj, metadata.gps)
       /\ ReadsBackSigns(readResult, metadata.gps)

\* C2, the failing case: lat -33.8688, lon 151.2093 is stored with "S", "E"
\* and the right triples, but reads back NaN and the string "151,1NaNNaN".
C2_StoredRightReadWrong ==
    /\ op = "readOutput"
    /\ mimeType = "image/jpeg"
    /\ imageBuffer = PlainJpeg(1)
    /\ metadata = GpsOnly(<< -338688, 1512093 >>)
    /\ StoresHemispheres(PiexifLoad(writeResult.buffer.bytes).exifObj, metadata.gps)
    /\ readResult.value.gps = Gps(NaN, Str(<< 49, 53, 49, 44, 49, 78, 97, 78, 78, 97, 78 >>))

\* A PNG made only of IHDR, IDAT and IEND chunks.
OnlyImageChunks(buf) ==
    /\ WellFormedPng(buf)
    /\ \A i \in 1..Len(PngTypes(buf)) : PngTypes(buf)[i] \in {T_IHDR, T_IDAT, T_IEND}
\* The JSON payload of a chunk has lat and lon equal to the written values.
PayloadHolds(chunk, written) ==
    /\ ~JsonParse(ChunkText(chunk)).threw
    /\ JsonParse(ChunkText(chunk)).value.t = "obj"
    /\ Lookup(JsonParse(ChunkText(chunk)).value.members, K_lat) = written.lat
    /\ Lookup(JsonParse(ChunkText(chunk)).value.members, K_lon) = written.lon

\* C3: for a PNG of only IHDR, IDAT and IEND chunks and any in-range gps, lat
\* or lon zero included, the output of writePNGMetadata has exactly one
\* GPS_Location text chunk, whose JSON payload has the written lat and lon, and
\* readPNGMetadata on the output returns exactly the written gps.
C3_PngGpsWriteRead ==
    (/\ op = "readOutput"
     /\ mimeType = "image/png"
     /\ HasCoordinates(metadata.gps)
     /\ OnlyImageChunks(imageBuffer))
    => /\ KeywordCount(writeResult.buffer.bytes, K_GPS_Location) = 1
       /\ \A i \in KeywordChunks(writeResult.buffer.bytes, K_GPS_Location) :
             PayloadHolds(PngChunksOf(writeResult.buffer.bytes)[i], metadata.gps)
       /\ readResult.value.gps = Gps(metadata.gps.lat, metadata.gps.lon)

\* C3, reached with lat = 0.
C3_ZeroLatitudeReadBack ==
    /\ op = "readOutput"
    /\ mimeType = "image/png"
    /\ OnlyImageChunks(imageBuffer)
    /\ metadata.gps = Gps(IntNum(0), Degrees(-1224194))
    /\ readResult.value.gps = metadata.gps

\* C4: a second writePNGMetadata, on the output of the first and with the same
\* metadata, yields for each written keyword as many chunks as the first did,
\* and no more than one: the chunks of the first write are removed before the
\* new ones are inserted.
C4_NoDuplicateAccumulation ==
    (/\ op = "write"
     /\ generation >= 1
     /\ mimeType = "image/png"
     /\ writeResult.success
     /\ T_IHDR \in {PngTypes(imageBuffer)[i] : i \in 1..Len(PngTypes(imageBuffer))})
    => \A keyword \in WrittenKeywords :
          /\ KeywordCount(writeResult.buffer.bytes, keyword) = KeywordCount(imageBuffer, keyword)
          /\ KeywordCount(writeResult.buffer.bytes, keyword) <= 1

\* C4, reached: the second write of gps, description and keywords.
C4_SecondWriteDone ==
    /\ op = "write"
    /\ generation = 1
    /\ mimeType = "image/png"
    /\ writeResult.success
    /\ Truthy(metadata.description) /\ Truthy(metadata.keywords)
    /\ \A keyword \in WrittenKeywords :
          KeywordCount(imageBuffer, keyword) = 1
          /\ KeywordCount(writeResult.buffer.bytes, keyword) = 1

\* C5: in every output of writePNGMetadata each chunk, retained or new, has a
\* length field equal to the number of its data bytes and a stored CRC equal
\* to the CRC32 of its type followed by its data.
C5_ChunksLengthAndCrc ==
    (op = "write" /\ mimeType = "image/png" /\ writeResult.success)
    => /\ PngFramed(writeResult.buffer.bytes)
       /\ \A i \in 1..Len(PngChunksOf(writeResult.buffer.bytes)) :
             LET chunk == PngChunksOf(writeResult.buffer.bytes)[i]
             IN  chunk.length = Len(chunk.data) /\ CrcCorrect(chunk)

\* C5, the failing case: the IDAT chunk of the input has a wrong stored CRC;
\* the output is framed, its text chunks are correct, and IDAT keeps the CRC.
C5_WrongCrcRetained ==
    /\ op = "write"
    /\ mimeType = "image/png"
    /\ imageBuffer = BadCrcPng
    /\ writeResult.success
    /\ PngFramed(writeResult.buffer.bytes)
    /\ \A i \in 1..Len(PngChunksOf(writeResult.buffer.bytes)) :
          LET chunk == PngChunksOf(writeResult.buffer.bytes)[i]
          IN  IF chunk.type = T_IDAT THEN chunk.crc = << 0, 0, 0, 0 >> /\ ~CrcCorrect(chunk)
              ELSE CrcCorrect(chunk)

\* The chunks of a WebP input other than EXIF ones are VP8X, then 'VP8 '.
Vp8xThenVp8(buf) ==
    /\ WellFormedWebP(buf)
    /\ SelectSeq(WebPTypes(buf), LAMBDA type : type # T_EXIF) = << T_VP8X, T_VP8 >>
ExifPositions(buf) == {i \in 1..Len(WebPTypes(buf)) : WebPTypes(buf)[i] = T_EXIF}

\* C6: for a WebP input that is a VP8X chunk followed by a 'VP8 ' chunk, with
\* or without EXIF chunks, the output of writeWebPMetadata has exactly one
\* EXIF chunk, and it comes immediately after the 'VP8 ' chunk.
C6_ExifAfterVp8 ==
    (/\ op = "write"
     /\ mimeType = "image/webp"
     /\ writeResult.success
     /\ Vp8xThenVp8(imageBuffer))
    => /\ Cardinality(ExifPositions(writeResult.buffer.bytes)) = 1
       /\ \A i \in ExifPositions(writeResult.buffer.bytes) :
             i > 1 /\ WebPTypes(writeResult.buffer.bytes)[i - 1] = T_VP8

\* C6, the failing case: VP8X, 'VP8 ' comes out as VP8X, EXIF, 'VP8 '.
C6_ExifBeforeVp8 ==
    /\ op = "write"
    /\ mimeType = "image/webp"
    /\ imageBuffer = ExtendedWebP(1)
    /\ writeResult.success
    /\ WebPTypes(writeResult.buffer.bytes) = << T_VP8X, T_EXIF, T_VP8 >>

\* C7: in every output of writeWebPMetadata the size field at bytes 4..7 is 4
\* plus, over all chunks, 8 + data length (+ 1 when odd), which is the length
\* of the output minus 8; every chunk of odd data length is followed by one
\* zero pad byte, and every size field is the unpadded length of the data,
\* that of the new EXIF chunk being the length of the EXIF block.
C7_WebPSizes ==
    (op = "write" /\ mimeType = "image/webp" /\ writeResult.success)
    => LET out == writeResult.buffer.bytes
           chunks == WebPChunksOf(out)
       IN  /\ ReadUInt32LE(out, 4) = 4 + WebPStreamLength(chunks)
           /\ ReadUInt32LE(out, 4) = Len(out) - 8
           /\ \A i \in 1..Len(chunks) :
                 /\ chunks[i].whole
                 /\ chunks[i].size = Len(chunks[i].data)
                 /\ chunks[i].pad = (IF chunks[i].size % 2 = 1 THEN 0 ELSE -1)
                 /\ chunks[i].type = T_EXIF
                    => chunks[i].size = Len(createExifChunk(metadata).buffer)

\* C7, reached with a chunk of odd length and one cut short in the input.
C7_OddChunkPadded ==
    /\ op = "write"
    /\ mimeType = "image/webp"
    /\ imageBuffer = TruncatedWebP
    /\ writeResult.success
    /\ \E i \in 1..Len(WebPChunksOf(writeResult.buffer.bytes)) :
          LET chunk == WebPChunksOf(writeResult.buffer.bytes)[i]
          IN  chunk.type = T_VP8 /\ chunk.size = 3 /\ chunk.pad = 0

\* Some chunk of a PNG declares more bytes than the buffer still holds.
HasOverlongChunk(buf) ==
    /\ HasPngSignature(buf)
    /\ \E i \in 1..Len(PngChunksOf(buf)) : ~PngChunksOf(buf)[i].whole

\* C8: reading a PNG in which a chunk's declared length exceeds the bytes that
\* remain fails with an error surfaced to the caller; it never returns a
\* result as if it had succeeded.
C8_TruncatedPngFails ==
    (/\ op = "readInput"
     /\ mimeType = "image/png"
     /\ HasOverlongChunk(imageBuffer))
    => readResult.raised

\* C8, the failing case: the Description chunk is cut after "sea", and the
\* read returns that as the description.
C8_ClampedTextReturned ==
    /\ op = "readInput"
    /\ mimeType = "image/png"
    /\ imageBuffer = TruncatedTextPng
    /\ ~readResult.raised
    /\ readResult.value = [EmptyMetadata EXCEPT !.description = Str(<< 115, 101, 97 >>)]

\* C9: for a MIME type the table does not list as writable (image/heic,
\* image/heif, any string outside the table), writeMetadataUniversal returns
\* success:false with an error message and no buffer, invokes no format
\* writer, and leaves the input buffer as it was.
C9_UnwritableRefused ==
    [][(op' = "write" /\ clock' # clock /\ mimeType \notin TableWritable)
       => /\ ~writeResult'.success
          /\ writeResult'.error # NoError /\ writeResult'.error # <<>>
          /\ writeResult'.buffer = NoBuffer
          /\ writeResult'.invoked = {}
          /\ imageBuffer' = imageBuffer]_vars

\* C9, reached for image/heic.
C9_HeicRefused ==
    /\ op = "write"
    /\ mimeType = "image/heic"
    /\ ~writeResult.success
    /\ writeResult.invoked = {}

\* The buffer the last read was given.
ReadBuffer == IF op = "readOutput" THEN writeResult.buffer.bytes ELSE imageBuffer
\* The data of the first EXIF chunk the WebP reader comes to, if any.
FirstExifData(buf) ==
    LET chunks == WebPChunksOf(buf)
        exifs == {i \in 1..Len(chunks) : chunks[i].type = T_EXIF}
    IN  IF exifs = {} THEN << >> ELSE chunks[Least(exifs)].data
\* The reader the MIME type dispatches to throws on the buffer: a wrong
\* signature, or EXIF data the library cannot load.
ReaderThrows(buf, mime) ==
    CASE mime = "image/png" -> ~HasPngSignature(buf)
      [] mime = "image/webp" ->
           ~HasWebPSignature(buf)
           \/ (ExifPositions(buf) # {} /\ PiexifLoad(FirstExifData(buf)).threw)
      [] mime \in TableReadable -> PiexifLoad(buf).threw
      [] OTHER -> FALSE

\* C10: readMetadataUniversal never raises: for every buffer and MIME string
\* it returns a MetadataInfo record, the empty one (and no reader invoked)
\* when the type is not readable, and the empty one when the reader throws.
C10_ReadNeverRaises ==
    (op \in {"readInput", "readOutput"})
    => /\ ~readResult.raised
       /\ DOMAIN readResult.value = DOMAIN EmptyMetadata
       /\ mimeType \notin TableReadable
          => readResult.value = EmptyMetadata /\ readResult.invoked = {}
       /\ ReaderThrows(ReadBuffer, mimeType) => readResult.value = EmptyMetadata

\* C10, reached: a buffer without the PNG signature read as image/png.
C10_BadSignatureReadEmpty ==
    /\ op = "readInput"
    /\ mimeType = "image/png"
    /\ imageBuffer = Garbage
    /\ readResult.invoked = {"readPNGMetadata"}
    /\ ~readResult.raised
    /\ readResult.value = EmptyMetadata

----------------------------------------------------------------------------
(* Claims C11 - C20 *)

\* The clock reading the last write made.
LastNow == Now(IF clock > 0 THEN clock - 1 ELSE 0)
\* The format writer the MIME type dispatches to throws on the call.
WriterThrows(buf, meta, mime) ==
    CASE mime = "image/png" -> writePNGMetadata(buf, meta, LastNow, LastNow).threw
      [] mime = "image/webp" -> writeWebPMetadata(buf, meta).threw
      [] mime \in {"image/jpeg", "image/jpg", "image/tiff"} -> writeExifMetadata(buf, meta).threw
      [] OTHER -> FALSE

\* C11: writeMetadataUniversal never raises and returns either success:true
\* with a buffer, or success:false with an error message and no buffer; an
\* exception thrown inside the EXIF, WebP or PNG writer gives the second.
C11_WriteNeverRaises ==
    (op = "write")
    => /\ ~writeResult.raised
       /\ writeResult.success => writeResult.buffer.t = "buffer"
       /\ ~writeResult.success
          => /\ writeResult.buffer = NoBuffer
             /\ writeResult.error.t = "message"
             /\ writeResult.error.parts # <<>>
       /\ WriterThrows(imageBuffer, metadata, mimeType) => ~writeResult.success

\* C11, reached: the PNG writer reads past the end of a file cut short inside
\* IDAT, and the RangeError comes back as the error message.
C11_RangeErrorReturned ==
    /\ op = "write"
    /\ mimeType = "image/png"
    /\ imageBuffer = TruncatedIdatPng
    /\ writeResult.invoked = {"writePNGMetadata"}
    /\ ~writeResult.raised /\ ~writeResult.success
    /\ writeResult.buffer = NoBuffer
    /\ writeResult.error = ErrorMessage(<< OutOfRangeMessage >>)

\* The capability record by the table of the formats: all four flags for the
\* writable types, the two read flags for HEIC / HEIF, none otherwise.
Capabilities(readGPS, writeGPS, readMeta, writeMeta, method) ==
    [canReadGPS |-> Bool(readGPS), canWriteGPS |-> Bool(writeGPS),
     canReadMetadata |-> Bool(readMeta), canWriteMetadata |-> Bool(writeMeta),
     method |-> method]
TableSupport(mime) ==
    CASE mime \in {"image/jpeg", "image/jpg", "image/tiff"} ->
           Capabilities(TRUE, TRUE, TRUE, TRUE, "exif")
      [] mime = "image/webp" -> Capabilities(TRUE, TRUE, TRUE, TRUE, "riff")
      [] mime = "image/png" -> Capabilities(TRUE, TRUE, TRUE, TRUE, "custom")
      [] mime \in {"image/heic", "image/heif"} -> Capabilities(TRUE, FALSE, TRUE, FALSE, "exif")
      [] OTHER -> Capabilities(FALSE, FALSE, FALSE, FALSE, "custom")
FlagsAndMethod(support) ==
    [canReadGPS |-> support.canReadGPS, canWriteGPS |-> support.canWriteGPS,
     canReadMetadata |-> support.canReadMetadata,
     canWriteMetadata |-> support.canWriteMetadata, method |-> support.method]

\* C12: getFormatSupport is a total function of the MIME string: the flags and
\* method of the table for the seven listed types, all four flags false with
\* method custom for every other string, and equal records on repeated lookups.
C12_SupportTable ==
    /\ FlagsAndMethod(getFormatSupport(mimeType)) = TableSupport(mimeType)
    /\ getFormatSupport(mimeType) = getFormatSupport(mimeType)

\* C12, the failing case: "constructor" names a member every object literal
\* inherits, so the lookup returns that member instead of the fallback record:
\* the flags and the method are undefined, and so are the notes in the message
\* of the refused write.
C12_InheritedMemberLookedUp ==
    /\ op = "write"
    /\ mimeType = "constructor"
    /\ getFormatSupport(mimeType).canReadGPS = Undefined
    /\ getFormatSupport(mimeType).canWriteMetadata = Undefined
    /\ getFormatSupport(mimeType).method = "undefined"
    /\ writeResult.error = ErrorMessage(<< "Writing metadata not supported for ", "constructor",
                                           ". ", "undefined" >>)

\* dateTime, cameraMake and cameraModel of a MetadataInfo.
Provenance(info) ==
    [dateTime |-> info.dateTime, cameraMake |-> info.cameraMake,
     cameraModel |-> info.cameraModel]

\* C13: after a successful write to a writable format, reading the output
\* returns the dateTime, cameraMake and cameraModel that reading the input
\* returns, whatever metadata was written.
C13_ProvenanceUnchanged ==
    (op = "readOutput" /\ mimeType \in TableWritable)
    => Provenance(readResult.value)
       = Provenance(readMetadataUniversal(imageBuffer, mimeType).value)

\* C13, the failing case: a PNG of IHDR, IDAT and IEND has no dateTime; every
\* write adds a "Creation Time" chunk with the time of the write, and the
\* output reads that as dateTime.
C13_CreationTimeReadAsDateTime ==
    /\ op = "readOutput"
    /\ mimeType = "image/png"
    /\ imageBuffer = PlainPng(1)
    /\ readMetadataUniversal(imageBuffer, mimeType).value.dateTime = Undefined
    /\ KeywordCount(writeResult.buffer.bytes, K_CreationTime) = 1
    /\ readResult.value.dateTime \in {Str(Now(0)), Str(Now(1))}
    /\ readResult.value.cameraMake = Undefined
    /\ readResult.value.cameraModel = Undefined

\* A gps object in which lat or lon is missing.
OneCoordinateMissing(gps) ==
    Truthy(gps) /\ (gps.lat = Undefined \/ gps.lon = Undefined)
WithoutGps(meta) == [meta EXCEPT !.gps = Undefined]
\* The GPS tags of the EXIF block of a JPEG.
GpsTagsOf(buf) ==
    [name \in {"GPSLatitude", "GPSLatitudeRef", "GPSLongitude", "GPSLongitudeRef"} |->
        PiexifLoad(buf).exifObj[name]]

\* C14: a metadata record whose gps has only one of lat and lon is written by
\* every writer as the same record without gps is: no GPS tag and no GPS chunk.
C14_PartialGpsIsNoGps ==
    (op = "write" /\ OneCoordinateMissing(metadata.gps))
    => \E tick \in {0, 1} :
          writeResult = writeMetadataUniversal(imageBuffer, WithoutGps(metadata), mimeType,
                                               LastNow, Now(clock - 1 + tick))

\* C14, the failing case: writeExifMetadata tests metadata.gps alone; with lon
\* missing the JPEG gets latitude 37 46' 29.64" N and a longitude of zeros
\* with reference "W".
C14_JpegGetsGpsTags ==
    /\ op = "write"
    /\ mimeType = "image/jpeg"
    /\ imageBuffer = PlainJpeg(1)
    /\ metadata.gps = Gps(Degrees(377749), Undefined)
    /\ writeResult.success
    /\ GpsTagsOf(imageBuffer).GPSLatitude = Undefined
    /\ GpsTagsOf(writeResult.buffer.bytes).GPSLatitudeRef = Str(S_N)
    /\ GpsTagsOf(writeResult.buffer.bytes).GPSLatitude
       = DmsRationals(<< IntNum(37), IntNum(46), Num(2964, 100) >>, 100)
    /\ GpsTagsOf(writeResult.buffer.bytes).GPSLongitudeRef = Str(S_W)
    /\ GpsTagsOf(writeResult.buffer.bytes).GPSLongitude
       = DmsRationals(<< IntNum(0), IntNum(0), IntNum(0) >>, 100)

\* C15: for a well-formed PNG with any text chunks and a write of a gps, a
\* description and keywords, reading the output returns exactly the written
\* gps, description and keywords: no text chunk of the input is read instead.
C15_NoStaleMetadata ==
    (/\ op = "readOutput"
     /\ mimeType = "image/png"
     /\ WellFormedPng(imageBuffer)
     /\ HasCoordinates(metadata.gps)
     /\ Truthy(metadata.description) /\ Truthy(metadata.keywords))
    => /\ readResult.value.gps = metadata.gps
       /\ readResult.value.description = metadata.description
       /\ readResult.value.keywords = metadata.keywords

\* C15, the failing case: the input has Caption "one", tags "a" and Title
\* "two"; the write of description "pier" and keywords "sun" removes Title but
\* keeps Caption and tags, which come after the new chunks, and the output
\* reads description "one" and keywords "a".
C15_CaptionAndTagsSurvive ==
    /\ op = "readOutput"
    /\ mimeType = "image/png"
    /\ imageBuffer = StalePng
    /\ metadata.description = Str(<< 112, 105, 101, 114 >>) /\ metadata.keywords = Str(<< 115, 117, 110 >>)
    /\ KeywordCount(writeResult.buffer.bytes, << 67, 97, 112, 116, 105, 111, 110 >>) = 1
    /\ KeywordCount(writeResult.buffer.bytes, << 116, 97, 103, 115 >>) = 1
    /\ KeywordCount(writeResult.buffer.bytes, K_Title) = 1
    /\ readResult.value.gps = metadata.gps
    /\ readResult.value.description = Str(<< 111, 110, 101 >>)
    /\ readResult.value.keywords = Str(<< 97 >>)

\* The stream up to and including its i-th chunk.
PngPrefix(buf, i) ==
    SubSeq(buf, 1, Len(PngSignature) + PngStreamLength(SubSeq(PngChunksOf(buf), 1, i)))
MetadataFields == {"gps", "description", "keywords", "dateTime", "cameraMake", "cameraModel"}

\* C16: in readPNGMetadata the first matching chunk of a category wins: a
\* field that is set once the stream has been read up to some chunk has the
\* same value when the whole stream has been read.
C16_FirstMatchWins ==
    (/\ op \in {"readInput", "readOutput"}
     /\ mimeType = "image/png"
     /\ PngFramed(ReadBuffer))
    => \A i \in 1..Len(PngChunksOf(ReadBuffer)) : \A field \in MetadataFields :
          readPNGMetadata(PngPrefix(ReadBuffer, i)).value[field] # Undefined
          => readResult.value[field]
             = readPNGMetadata(PngPrefix(ReadBuffer, i)).value[field]

\* C16, the failing case: Caption "one" comes before Title "two"; read up to
\* the Caption chunk the description is "one", read whole it is "two".
C16_LaterTitleOverwrites ==
    /\ op = "readInput"
    /\ mimeType = "image/png"
    /\ imageBuffer = StalePng
    /\ ChunkKeyword(PngChunksOf(imageBuffer)[2]) = << 67, 97, 112, 116, 105, 111, 110 >>
    /\ ChunkKeyword(PngChunksOf(imageBuffer)[4]) = K_Title
    /\ readPNGMetadata(PngPrefix(imageBuffer, 2)).value.description = Str(<< 111, 110, 101 >>)
    /\ readResult.value.description = Str(<< 116, 119, 111 >>)

\* The keyword and text pairs a write of the metadata hands to
\* createPNGTextChunk, apart from the creation time.
WrittenTexts(meta) ==
    PngGpsChunks(meta, LastNow) \o PngDescriptionChunks(meta) \o PngKeywordsChunks(meta)
    \o << << K_Software, SoftwareName >> >>
\* What readPNGMetadata decodes from a chunk buffer: its type and data fields.
DecodedChunk(chunk) ==
    PngTextOf(SubSeq(chunk, 5, 8), SubSeq(chunk, 9, Len(chunk) - 4))

\* C17: every chunk built by createPNGTextChunk(keyword, text), tEXt or iTXt,
\* decodes in readPNGMetadata to the same keyword and text; a description
\* written to a PNG is read back with no character added or missing.
C17_TextChunkRoundTrip ==
    (/\ op = "readOutput"
     /\ mimeType = "image/png"
     /\ OnlyImageChunks(imageBuffer))
    => /\ \A i \in 1..Len(WrittenTexts(metadata)) :
             DecodedChunk(createPNGTextChunk(WrittenTexts(metadata)[i][1],
                                             WrittenTexts(metadata)[i][2]))
             = [keyword |-> WrittenTexts(metadata)[i][1],
                text |-> WrittenTexts(metadata)[i][2]]
       /\ PngDescriptionChunks(metadata) # <<>>
          => readResult.value.description = Str(Trim(metadata.description.s))

\* C17, the failing case: the description "Caf", U+00E9 is written as iTXt
\* chunks whose text, by the layout, is those four characters; the reader
\* takes the NUL that ends the language tag for the one that ends the
\* translated keyword, and returns the text with a NUL character in front.
C17_NulBeforeText ==
    /\ op = "readOutput"
    /\ mimeType = "image/png"
    /\ imageBuffer = PlainPng(1)
    /\ metadata.description = Str(<< 67, 97, 102, 233, 32 >>)
    /\ \A i \in KeywordChunks(writeResult.buffer.bytes, K_Description) :
          /\ PngChunksOf(writeResult.buffer.bytes)[i].type = T_iTXt
          /\ ChunkText(PngChunksOf(writeResult.buffer.bytes)[i]) = << 67, 97, 102, 233 >>
    /\ KeywordCount(writeResult.buffer.bytes, K_Description) = 1
    /\ DecodedChunk(createPNGTextChunk(K_Title, << 67, 97, 102, 233 >>))
       = [keyword |-> K_Title, text |-> << 0, 67, 97, 102, 233 >>]
    /\ readResult.value.description = Str(<< 0, 67, 97, 102, 233 >>)

\* The keywords that stand for a position: those that contain, in any case,
\* one of the four words.
GpsVocabulary == << << 103, 112, 115 >>, << 108, 111, 99, 97, 116, 105, 111, 110 >>, << 99, 111, 111, 114, 100, 105, 110, 97, 116, 101, 115 >>, << 103, 101, 111, 108, 111, 99, 97, 116, 105, 111, 110 >> >>
IsGpsKeyword(keyword) ==
    \E i \in 1..Len(GpsVocabulary) : Includes(ToLowerCase(keyword), GpsVocabulary[i])
GpsChunks(buf) ==
    {i \in 1..Len(PngChunksOf(buf)) :
        IsTextChunk(PngChunksOf(buf)[i]) /\ IsGpsKeyword(ChunkKeyword(PngChunksOf(buf)[i]))}
\* The position a text of key=value pairs joined by ';', '&' or '|' gives:
\* the values of lat and lon.
PairValue(pair, key) ==
    IF SubSeq(pair, 1, Len(key) + 1) = key \o << 61 >>
    THEN parseFloat(Str(SubSeq(pair, Len(key) + 2, Len(pair)))) ELSE NaN
KeyValueGps(text) ==
    LET pairs == Split([i \in 1..Len(text) |-> IF text[i] \in {38, 124} THEN 59 ELSE text[i]], 59)
    IN  IF Len(pairs) = 2 /\ IsNum(PairValue(pairs[1], K_lat)) /\ IsNum(PairValue(pairs[2], K_lon))
        THEN Gps(PairValue(pairs[1], K_lat), PairValue(pairs[2], K_lon))
        ELSE Undefined

\* C18: readPNGMetadata takes gps from a text chunk whose keyword contains
\* gps, location, coordinates or geolocation, in any case, and reads a text of
\* key=value pairs: a PNG whose only such chunk holds "lat=a;lon=b" reads back
\* gps = {a, b}.
C18_KeyValueLocationRead ==
    (/\ op = "readInput"
     /\ mimeType = "image/png"
     /\ PngFramed(imageBuffer)
     /\ Cardinality(GpsChunks(imageBuffer)) = 1
     /\ \A i \in GpsChunks(imageBuffer) :
           KeyValueGps(ChunkText(PngChunksOf(imageBuffer)[i])) # Undefined)
    => \A i \in GpsChunks(imageBuffer) :
          readResult.value.gps = KeyValueGps(ChunkText(PngChunksOf(imageBuffer)[i]))

\* C18, the failing case: the only position chunk is Location
\* "lat=1.5;lon=2.5", which stands for {1.5, 2.5}; the reader tests the
\* keyword for "gps" alone and returns no gps, and under a keyword it does
\* accept the same text is parsed neither as JSON nor as "lat,lon".
C18_LocationChunkIgnored ==
    /\ op = "readInput"
    /\ mimeType = "image/png"
    /\ imageBuffer = LocationPng
    /\ \A i \in GpsChunks(imageBuffer) :
          /\ ChunkKeyword(PngChunksOf(imageBuffer)[i]) = K_Location
          /\ KeyValueGps(ChunkText(PngChunksOf(imageBuffer)[i])) = Gps(Num(3, 2), Num(5, 2))
    /\ Cardinality(GpsChunks(imageBuffer)) = 1
    /\ ~readResult.raised
    /\ readResult.value.gps = Undefined
    /\ PngSetGps(EmptyMetadata, << 103, 112, 115 >>, << 108, 97, 116, 61, 49, 46, 53, 59, 108, 111, 110, 61, 50, 46, 53 >>) = EmptyMetadata

\* The vocabulary of metadata keywords: a tEXt / iTXt chunk is a metadata chunk
\* when its keyword contains, in any case, one of the words.
MetadataVocabulary ==
    << << 103, 112, 115 >>,
       << 108, 111, 99, 97, 116, 105, 111, 110 >>,
       << 99, 111, 111, 114, 100, 105, 110, 97, 116, 101, 115 >>,
       << 103, 101, 111, 108, 111, 99, 97, 116, 105, 111, 110 >>,
       << 100, 101, 115, 99, 114, 105, 112, 116, 105, 111, 110 >>,
       << 99, 111, 109, 109, 101, 110, 116 >>,
       << 116, 105, 116, 108, 101 >>,
       << 99, 97, 112, 116, 105, 111, 110 >>,
       << 107, 101, 121, 119, 111, 114, 100, 115 >>,
       << 115, 117, 98, 106, 101, 99, 116 >>,
       << 116, 97, 103, 115 >>,
       << 100, 97, 116, 101 >>,
       << 116, 105, 109, 101 >>,
       << 99, 114, 101, 97, 116, 105, 111, 110 >>,
       << 99, 97, 109, 101, 114, 97 >>,
       << 109, 97, 107, 101 >>,
       << 109, 111, 100, 101, 108 >>,
       << 115, 111, 102, 116, 119, 97, 114, 101 >> >>
IsMetadataChunk(chunk) ==
    /\ IsTextChunk(chunk)
    /\ \E i \in 1..Len(MetadataVocabulary) :
          Includes(ToLowerCase(ChunkKeyword(chunk)), MetadataVocabulary[i])
IsOtherChunk(chunk) == ~IsMetadataChunk(chunk)
ChunkBytes(chunk) == U32BE(chunk.length) \o chunk.type \o chunk.data \o chunk.crc
BytesOfChunks(chunks) == [i \in 1..Len(chunks) |-> ChunkBytes(chunks[i])]
HasIhdr(buf) == \E i \in 1..Len(PngTypes(buf)) : PngTypes(buf)[i] = T_IHDR
\* The text chunks a write creates, for one of the readings of the clock.
CreatedChunks(chunks) ==
    \E tick \in {0, 1} : chunks = PngNewChunks(metadata, LastNow, Now(clock - 1 + tick))

\* C19: writePNGMetadata copies every input chunk that is not a tEXt / iTXt
\* chunk with a metadata keyword byte for byte (length, type, data, CRC) and
\* in the same order, the final IEND included; the output is the signature,
\* these chunks and the text chunks the write creates, and nothing else.
C19_OtherChunksCopied ==
    (/\ op = "write"
     /\ mimeType = "image/png"
     /\ writeResult.success
     /\ PngFramed(imageBuffer))
    => /\ PngFramed(writeResult.buffer.bytes)
       /\ SelectSeq(PngChunksOf(writeResult.buffer.bytes), IsOtherChunk)
          = SelectSeq(PngChunksOf(imageBuffer), IsOtherChunk)
       /\ IF HasIhdr(imageBuffer)
          THEN CreatedChunks(BytesOfChunks(SelectSeq(PngChunksOf(writeResult.buffer.bytes),
                                                     IsMetadataChunk)))
          ELSE SelectSeq(PngChunksOf(writeResult.buffer.bytes), IsMetadataChunk) = <<>>

\* C19, the failing case: IHDR, IDAT and IEND are copied as they were and
\* Title is removed, but the Caption and tags chunks of the input, which the
\* write did not create, are in the output as well, after the new chunks.
C19_CaptionChunkInOutput ==
    /\ op = "write"
    /\ mimeType = "image/png"
    /\ imageBuffer = StalePng
    /\ writeResult.success
    /\ BytesOfChunks(SelectSeq(PngChunksOf(writeResult.buffer.bytes), IsOtherChunk))
       = << IhdrChunk, IdatChunk(1), IendChunk >>
    /\ LET found == BytesOfChunks(SelectSeq(PngChunksOf(writeResult.buffer.bytes),
                                            IsMetadataChunk))
       IN  /\ Len(found) > 2
           /\ CreatedChunks(SubSeq(found, 1, Len(found) - 2))
           /\ SubSeq(found, Len(found) - 1, Len(found))
              = << TextChunk(<< 67, 97, 112, 116, 105, 111, 110 >>, << 111, 110, 101 >>), TextChunk(<< 116, 97, 103, 115 >>, << 97 >>) >>

\* Type and data of the chunks of a WebP stream that are not EXIF chunks.
TypeAndData(chunks) == [i \in 1..Len(chunks) |-> << chunks[i].type, chunks[i].data >>]
IsNotExif(chunk) == chunk.type # T_EXIF
UnrelatedChunks(buf) == TypeAndData(SelectSeq(WebPChunksOf(buf), IsNotExif))

\* C20: every chunk of a WebP input that is not an EXIF chunk, a last chunk
\* without data and chunks of odd length included, is in the output of
\* writeWebPMetadata with the same type and data and in the same order, and
\* the one new EXIF chunk is the only chunk added.
C20_UnrelatedChunksKept ==
    (/\ op = "write"
     /\ mimeType = "image/webp"
     /\ writeResult.success
     /\ WellFormedWebP(imageBuffer))
    => /\ UnrelatedChunks(writeResult.buffer.bytes) = UnrelatedChunks(imageBuffer)
       /\ Cardinality(ExifPositions(writeResult.buffer.bytes)) = 1

\* C20, the failing case: the input is 'VP8 ' with one byte (padded) and an
\* 'XMP ' chunk without data, which takes the last 8 bytes of the file; the
\* output is 'VP8 ' and EXIF, without the 'XMP ' chunk.
C20_EmptyLastChunkDropped ==
    /\ op = "write"
    /\ mimeType = "image/webp"
    /\ imageBuffer = EmptyLastWebP
    /\ WellFormedWebP(imageBuffer)
    /\ writeResult.success
    /\ UnrelatedChunks(imageBuffer) = << << T_VP8, Payload(1) >>, << T_XMP, <<>> >> >>
    /\ WebPTypes(writeResult.buffer.bytes) = << T_VP8, T_EXIF >>
    /\ UnrelatedChunks(writeResult.buffer.bytes) = << << T_VP8, Payload(1) >> >>

----------------------------------------------------------------------------
(* Claims C21 - C30 *)

\* The chunks of a WebP output that the writer retained from its input.
RetainedTypes(buf) == SelectSeq(WebPTypes(buf), LAMBDA type : type # T_EXIF)
ImageDataTypes == {T_VP8, T_VP8L, T_VP8X}
\* Where the claim puts the EXIF chunk among the chunks of the output: behind
\* the first retained 'VP8 ', 'VP8L' or 'VP8X' chunk, else first.
ExpectedExifPosition(retained) ==
    LET hits == {i \in 1..Len(retained) : retained[i] \in ImageDataTypes}
    IN  IF hits = {} THEN 1 ELSE Least(hits) + 1

ExpectedKeywords(meta) ==
    (IF HasCoordinates(meta.gps)
     THEN << K_GPS_Location, K_GPS_Coordinates, K_Location, K_Geolocation >> ELSE <<>>)
    \o (IF Truthy(meta.description) THEN << K_Description, K_Comment, K_Title >> ELSE <<>>)
    \o (IF Truthy(meta.keywords) THEN << K_Keywords, K_Subject >> ELSE <<>>)
    \o << K_CreationTime, K_Software >>
\* The index of the first IHDR chunk of a chunk list, 0 when there is none.
FirstIhdr(chunks) == FirstOrZero({i \in 1..Len(chunks) : chunks[i].type = T_IHDR})
\* The chunks of a list that carry one of the writer's keywords.
WrittenPositions(chunks) ==
    {i \in 1..Len(chunks) : IsTextChunk(chunks[i]) /\ ChunkKeyword(chunks[i]) \in WrittenKeywords}
InsertedAfter(chunks, first, keywords) ==
    /\ Len(chunks) >= first + Len(keywords)
    /\ \A k \in 1..Len(keywords) :
          /\ IsTextChunk(chunks[first + k])
          /\ ChunkKeyword(chunks[first + k]) = keywords[k]
    /\ WrittenPositions(chunks) = (first + 1)..(first + Len(keywords))

UserFields(info) == [gps |-> info.gps, description |-> info.description, keywords |-> info.keywords]
NoUserFields == UserFields(EmptyMetadata)

\* C23: for a PNG input in which no IHDR chunk is found, writeMetadataUniversal
\* returns success:true with a buffer that has no chunk of a written keyword
\* (not even Creation Time or Software), and reading that buffer returns no
\* gps, no description and no keywords.
C23_NoIhdrNothingInserted ==
    (/\ op \in {"write", "readOutput"}
     /\ mimeType = "image/png"
     /\ ~HasIhdr(imageBuffer))
    => /\ writeResult.success
       /\ ~writeResult.raised
       /\ WrittenPositions(PngChunksOf(writeResult.buffer.bytes)) = {}
       /\ op = "readOutput" => UserFields(readResult.value) = NoUserFields

\* C23, its case: IDAT and IEND alone, written with gps, description and
\* keywords, then read.
C23_WrittenThenReadEmpty ==
    /\ op = "readOutput"
    /\ imageBuffer = NoIhdrPng
    /\ HasCoordinates(metadata.gps)
    /\ Truthy(metadata.description)
    /\ Truthy(metadata.keywords)
    /\ writeResult.success
    /\ PngTypes(writeResult.buffer.bytes) = << T_IDAT, T_IEND >>
    /\ UserFields(readResult.value) = NoUserFields

\* A text chunk whose data lacks a separator: a tEXt or iTXt chunk with no NUL
\* after the keyword, or an iTXt chunk without the NUL that ends the language
\* tag or the one that ends the translated keyword.
MalformedText(chunk) ==
    LET keywordEnd == IndexOf(chunk.data, 0)
        languageEnd == IndexOfFrom(chunk.data, 0, keywordEnd + 3)
        translatedEnd == IndexOfFrom(chunk.data, 0, languageEnd + 1)
    IN  /\ IsTextChunk(chunk)
        /\ \/ keywordEnd < 0
           \/ chunk.type = T_iTXt /\ (languageEnd < 0 \/ translatedEnd < 0)
HasMalformedText(chunks) == \E i \in 1..Len(chunks) : MalformedText(chunks[i])
\* The file without its malformed text chunks.
WithoutMalformed(chunks) ==
    PngSignature
    \o Concat(BytesOfChunks(SelectSeq(chunks, LAMBDA chunk : ~MalformedText(chunk))))

\* C24: readPNGMetadata returns for a PNG with malformed text chunks what it
\* returns for the same file without them: a malformed chunk sets no field,
\* and the chunks after it are read as usual.
C24_MalformedChunkIgnored ==
    (op = "readInput" /\ mimeType = "image/png" /\ PngFramed(imageBuffer))
    => readResult.value
       = readMetadataUniversal(WithoutMalformed(PngChunksOf(imageBuffer)), mimeType).value

\* C24, the failing case: the tEXt chunk "Keywordsab" has no NUL, so that
\* indexOf gives -1; the keyword is read as "Keywordsa" and the text as the
\* whole data, which becomes the keywords of the result.  The Description
\* chunk that follows is read.
C24_RunTogetherKeywordRead ==
    /\ op = "readInput"
    /\ imageBuffer = MalformedPng
    /\ HasMalformedText(PngChunksOf(imageBuffer))
    /\ readResult.value.keywords = Str(<< 75, 101, 121, 119, 111, 114, 100, 115, 97, 98 >>)
    /\ readResult.value.description = Str(<< 112, 105, 101, 114 >>)
    /\ readMetadataUniversal(WithoutMalformed(PngChunksOf(imageBuffer)), mimeType).value.keywords
       = Undefined

\* A buffer that is not the container its MIME type names: no PNG signature
\* in the first 8 bytes, or not 'RIFF' at 0..3 and 'WEBP' at 8..11.
CorruptContainer(buf, mime) ==
    \/ mime = "image/png" /\ ~HasPngSignature(buf)
    \/ mime = "image/webp" /\ ~HasWebPSignature(buf)

\* C25: writeMetadataUniversal on a buffer without the signature of its
\* container, shorter than the header included, returns success:false with a
\* message and no buffer, and does not raise.
C25_CorruptContainerRefused ==
    (op = "write" /\ CorruptContainer(imageBuffer, mimeType))
    => /\ ~writeResult.raised
       /\ ~writeResult.success
       /\ writeResult.buffer = NoBuffer

\* C25, the failing case: neither writer looks at the signature.  For the 16
\* bytes of a GIF given as image/png the chunk loop does not run and the
\* result is success:true with the 8 signature bytes alone; for the 4 bytes
\* 'RIFF' given as image/webp the result is a RIFF file of one EXIF chunk.
C25_ContainerFabricated ==
    /\ op = "write"
    /\ writeResult.success
    /\ \/ /\ mimeType = "image/png"
          /\ imageBuffer = Garbage
          /\ writeResult.buffer.bytes = PngSignature
       \/ /\ mimeType = "image/webp"
          /\ imageBuffer = ShortBuffer
          /\ HasWebPSignature(writeResult.buffer.bytes)
          /\ WebPTypes(writeResult.buffer.bytes) = << T_EXIF >>

\* The reference definition of CRC-32, bit by bit.  The register is kept as
\* its two 16-bit halves << high, low >>.
RECURSIVE BitwiseXor(_, _)
BitwiseXor(a, b) ==
    IF a = 0 THEN b
    ELSE IF b = 0 THEN a
    ELSE ((a + b) % 2) + 2 * BitwiseXor(a \div 2, b \div 2)
\* 0xEDB88320, the polynomial with its bits reflected.
ReflectedPolynomial == << 237 * 256 + 184, 131 * 256 + 32 >>
AllOnes == << 65535, 65535 >>
HalvesXor(v, w) == << BitwiseXor(v[1], w[1]), BitwiseXor(v[2], w[2]) >>
\* One bit: shift right, and subtract the polynomial when a 1 fell out.
ReferenceShifted(reg) == << reg[1] \div 2, (reg[1] % 2) * 32768 + (reg[2] \div 2) >>
ReferenceBit(reg) ==
    IF reg[2] % 2 = 1 THEN HalvesXor(ReferenceShifted(reg), ReflectedPolynomial)
    ELSE ReferenceShifted(reg)
RECURSIVE ReferenceBits(_, _)
ReferenceBits(reg, n) ==
    IF n = 0 THEN reg
    ELSE LET next == ReferenceBit(reg)
         IN  IF next = <<>> THEN <<>> ELSE ReferenceBits(next, n - 1)
\* One byte: added to the low bits, then eight bit steps.
ReferenceByte(reg, byte) == ReferenceBits(HalvesXor(reg, << 0, byte >>), 8)
RECURSIVE ReferenceRegister(_, _)
ReferenceRegister(bytes, n) ==
    IF n = 0 THEN AllOnes
    ELSE LET before == ReferenceRegister(bytes, n - 1)
         IN  IF before = <<>> THEN <<>> ELSE ReferenceByte(before, bytes[n])
WordOf(reg) == << reg[1] \div 256, reg[1] % 256, reg[2] \div 256, reg[2] % 256 >>
ReferenceCrc(bytes) == WordOf(HalvesXor(ReferenceRegister(bytes, Len(bytes)), AllOnes))
\* The check value of CRC-32, 0xCBF43926, and the CRC of every IEND chunk,
\* 0xAE426082.
CheckValue == << 203, 244, 57, 38 >>
IendCrc == << 174, 66, 96, 130 >>

\* C26: calculateCRC32 returns, for every byte sequence, the CRC-32 of the
\* reflected polynomial 0xEDB88320 with initial value and final exclusive or
\* 0xFFFFFFFF as the bit-by-bit definition gives it, a value of four bytes
\* 0..255 (so within 0 .. 2^32 - 1), 0xCBF43926 for "123456789"; and the last
\* four bytes of a chunk made by createPNGTextChunk are that CRC of the type
\* and data fields, bytes 4 .. 8 + length - 1, without the length field.
C26_StandardCrc32 ==
    /\ crcOutput.t = "crc"
       => /\ crcOutput.value = ReferenceCrc(crcInput.bytes)
          /\ Len(crcOutput.value) = 4
          /\ \A i \in 1..4 : crcOutput.value[i] \in 0..255
          /\ crcInput.bytes = CheckString => crcOutput.value = CheckValue
          /\ crcInput.bytes = T_IEND => crcOutput.value = IendCrc
    /\ crcOutput.t = "chunk"
       => LET chunk == crcOutput.value
              n == Len(chunk)
          IN  /\ n >= 12
              /\ SubSeq(chunk, 1, 4) = U32BE(n - 12)
              /\ SubSeq(chunk, 5, 8) \in {T_tEXt, T_iTXt}
              /\ SubSeq(chunk, n - 3, n) = ReferenceCrc(SubSeq(chunk, 5, n - 4))

\* C26, its cases: the check value is returned for "123456789".
C26_CheckValueReturned ==
    /\ crcOutput.t = "crc"
    /\ crcInput.bytes = CheckString
    /\ crcOutput.value = CheckValue
    /\ ReferenceCrc(CheckString) = CheckValue

\* A non-empty string without white space at either end.
TrimmedText(v) == Truthy(v) /\ v.t = "str" /\ Trim(v.s) = v.s
TextFormats == {"image/png", "image/webp", "image/jpeg"}

\* C27: for image/png, image/webp and image/jpeg, after a successful write of
\* a non-empty trimmed keywords string and a non-empty trimmed description,
\* reading the output returns that keywords string and that description.
C27_TextRoundTrip ==
    (/\ op = "readOutput"
     /\ mimeType \in TextFormats
     /\ TrimmedText(metadata.keywords)
     /\ TrimmedText(metadata.description))
    => /\ readResult.value.keywords = metadata.keywords
       /\ readResult.value.description = metadata.description

\* C27, the failing case: a WebP of one 'VP8 ' chunk written with description
\* "pier" and keywords "sun".  The EXIF chunk of the output carries both
\* (ImageDescription and XPKeywords); readWebPMetadata takes gps and
\* description from it and nothing else, so keywords comes back undefined.
C27_WebPKeywordsNotRead ==
    /\ op = "readOutput"
    /\ mimeType = "image/webp"
    /\ imageBuffer = SimpleWebP(1)
    /\ metadata.keywords = Str(<< 115, 117, 110 >>)
    /\ metadata.description = Str(<< 112, 105, 101, 114 >>)
    /\ PiexifLoad(FirstExifData(writeResult.buffer.bytes)).exifObj["XPKeywords"] # Undefined
    /\ readResult.value.description = metadata.description
    /\ readResult.value.keywords = Undefined

\* C28: for every writable format, a successful write whose metadata has no
\* description leaves the description read from the image unchanged (the
\* output reads what the input reads), and a write whose metadata has no
\* keywords leaves the keywords read from the image unchanged.
C28_UnwrittenFieldsKept ==
    (op = "readOutput" /\ mimeType \in TableWritable)
    => LET before == readMetadataUniversal(imageBuffer, mimeType).value
       IN  /\ metadata.description = Undefined
              => readResult.value.description = before.description
           /\ metadata.keywords = Undefined
              => readResult.value.keywords = before.keywords

\* C28, the failing case: a PNG with a Title chunk "old", which reads as
\* description "old", written with gps alone.  The writer drops every text
\* chunk with one of its keywords, "title" among them, whether or not the
\* metadata has a description to put in its place: the output has no Title
\* chunk and reads no description.
C28_TitleLost ==
    /\ op = "readOutput"
    /\ mimeType = "image/png"
    /\ imageBuffer = TextPng
    /\ metadata.description = Undefined
    /\ readMetadataUniversal(imageBuffer, mimeType).value.description = Str(<< 111, 108, 100 >>)
    /\ KeywordCount(writeResult.buffer.bytes, K_Title) = 0
    /\ readResult.value.description = Undefined

\* The guards of the write request, stated on the request and the files of
\* /tmp: a value is numeric when it is a number or a text that spells one.
Numeric(v) == IsNum(v) \/ (v.t = "str" /\ Trim(v.s) # <<>> /\ IsNum(JsToNumber(v)))
Between(v, low, high) ==
    ~NumLt(JsToNumber(v), IntNum(low)) /\ ~NumLt(IntNum(high), JsToNumber(v))
StoredTypes(files, id) ==
    {getMimeType(ExtensionOr(f.name, <<>>)) : f \in {g \in files : StartsWith(g.name, id.s)}}
\* The statuses the guards allow, 200 standing for "every guard passed".
GuardStatus(req, files) ==
    IF req.method # "POST" THEN {405}
    ELSE IF Falsy(req.body.id) THEN {400}
    ELSE IF req.body.lat = Undefined \/ req.body.lon = Undefined THEN {400}
    ELSE IF ~Numeric(req.body.lat) \/ ~Numeric(req.body.lon) THEN {400}
    ELSE IF ~Between(req.body.lat, -90, 90) \/ ~Between(req.body.lon, -180, 180) THEN {400}
    ELSE IF StoredTypes(files, req.body.id) = {} THEN {404}
    ELSE {IF mime \in TableWritable THEN 200 ELSE 400 : mime \in StoredTypes(files, req.body.id)}
WriteAnswered ==
    /\ request # NoResult
    /\ request.handler = "write"
    /\ (request.method = "POST" => request.body # Null)

\* C29: the write handler calls writeMetadataUniversal only when every guard
\* has passed (method POST, id present, lat and lon defined, both numeric,
\* both in range, a stored file for the id, a format that can be written),
\* and a request that a guard rejects gets exactly one response, with that
\* guard's status and without image bytes.
C29_WriterBehindEveryGuard ==
    WriteAnswered
    => /\ Len(response.sent) = 1
       /\ (response.writerCalls # <<>>) => 200 \in GuardStatus(request, tmpFiles)
       /\ (200 \notin GuardStatus(request, tmpFiles))
          => /\ response.writerCalls = <<>>
             /\ response.sent[1].kind = "json"
             /\ response.sent[1].image = <<>>
             /\ response.sent[1].status \in GuardStatus(request, tmpFiles)

\* A request whose lat is null has been answered with the image, written
\* with latitude 0.
C29_NullLatitudeWritten ==
    /\ WriteAnswered
    /\ request.method = "POST"
    /\ request.body.lat = Null
    /\ Len(response.writerCalls) = 1
    /\ response.writerCalls[1].gps.lat = IntNum(0)
    /\ response.sent[1].status = 200
    /\ response.sent[1].kind = "image"

\* The last request was a clear request, answered with 200.
ClearReturned200 ==
    /\ request # NoResult
    /\ request.handler = "clear"
    /\ response.sent[1].status = 200
\* The next request is a write request that passes every guard before the
\* lookup of the stored file.
WriteLookedUp ==
    /\ request'.handler = "write"
    /\ request'.method = "POST"
    /\ request'.body # Null
    /\ GuardStatus(request', {}) = {404}

\* C30: once a clear request has returned 200, the upload storage directory
\* holds no uploaded image, and a write request that follows is answered
\* with 404 "Image not found".
C30_ClearRemovesUploads ==
    /\ [](ClearReturned200 => tmpFiles = {})
    /\ [][(ClearReturned200 /\ WriteLookedUp)
          => (response'.sent[1].status = 404
              /\ response'.sent[1].error = "Image not found")]_vars

\* A clear request has returned 200 and an uploaded image is still in /tmp.
C30_UploadSurvivesClear ==
    /\ ClearReturned200
    /\ \E f \in tmpFiles : ~f.old /\ getMimeType(ExtensionOr(f.name, <<>>)) = "image/png"

====
